---- MODULE Spec2Model ----
(***************************************************************************)
(* A model of the nectar Telnet codec (TelnetCodec, its Decoder and        *)
(* Encoder implementations and the sub-protocol parsers they call).        *)
(*                                                                         *)
(* Bytes are integers 0..255, byte strings are sequences of bytes.  The   *)
(* transport buffer (the BytesMut handed to decode) is the variable        *)
(* buffer, the codec's own Vec<u8> (codec.buffer) is codec_buffer.         *)
(* Rust indices are 0-based: buffer[i] in the source is buffer[i + 1]      *)
(* here.  A panic of the Rust code (index out of bounds, BytesMut::advance *)
(* past the end) is the outcome Panic.                                     *)
(***************************************************************************)
EXTENDS Integers, Sequences, FiniteSets, TLC

VARIABLES sga, message_mode, max_buffer_length, codec_buffer, buffer,
          result, op, old_buffer, old_codec_buffer,
          wire, events, expected, out_buf

vars == <<sga, message_mode, max_buffer_length, codec_buffer, buffer,
          result, op, old_buffer, old_codec_buffer,
          wire, events, expected, out_buf>>

(***************************************************************************)
(* Protocol bytes (constants.rs).                                          *)
(***************************************************************************)
ECHO == 1
GA == 249
SGA == 3
IAC == 255
SB == 250
NAWS == 31
SE == 240
NOP == 241
CR == 13
LF == 10
LINEMODE == 34
MODE == 1
LINEMODE_SLC == 3
LINEMODE_FORWARD_MASK == 2
WILL == 251
WONT == 252
DO == 253
DONT == 254
TELOPT_EOR == 25
MSSP == 70
MCCP2 == 86
MSP == 90
MXP == 91
GMCP == 201
CHARSET == 42
CHARSET_REQUEST == 1
CHARSET_ACCEPTED == 2
CHARSET_REJECTED == 3
CHARSET_TTABLE_REJECTED == 5
SLC_LEVELBITS == 3
SLC_ACK == 128
SLC_FLUSHIN == 64
SLC_FLUSHOUT == 32
SLC_EORC == 36
ENVIRON == 39
ENV_IS == 0
ENV_SEND == 1
ENV_INFO == 2
ENV_VAR == 0
ENV_VALUE == 1
ENV_ESC == 2
ENV_USERVAR == 3

(***************************************************************************)
(* Byte-string helpers.                                                    *)
(***************************************************************************)
\* BytesMut::advance(cnt) when cnt <= len: drop the first cnt bytes.
Advance(buf, cnt) == SubSeq(buf, cnt + 1, Len(buf))

\* slice[from..] of Rust (0-based from), for from <= len.
SliceFrom(s, from) == SubSeq(s, from + 1, Len(s))

\* A pop that removes nothing.
Front_keep(s) == s

\* Vec::pop on a non-empty vector: everything but the last byte.
Front(s) == SubSeq(s, 1, Len(s) - 1)

\* slice.ends_with(&[b])
EndsWith(s, b) == Len(s) > 0 /\ s[Len(s)] = b

\* slice.ends_with(b"\r\n")
EndsWithCRLF(s) == Len(s) >= 2 /\ s[Len(s) - 1] = CR /\ s[Len(s)] = LF

(***************************************************************************)
(* String::from_utf8_lossy followed by to_string: the bytes of the String  *)
(* that results.  Every maximal ill-formed subsequence becomes U+FFFD      *)
(* (EF BF BD), as core::str::lossy::Utf8Chunks computes it.                *)
(***************************************************************************)
REPLACEMENT == <<239, 191, 189>>

IsCont(s, i) == i <= Len(s) /\ s[i] >= 128 /\ s[i] <= 191

utf8_char_width(b) ==
    IF b < 128 THEN 1
    ELSE IF b >= 194 /\ b <= 223 THEN 2
    ELSE IF b >= 224 /\ b <= 239 THEN 3
    ELSE IF b >= 240 /\ b <= 244 THEN 4
    ELSE 0

\* The second byte of a 3- or 4-byte sequence is further restricted.
SecondOk(s) ==
    /\ Len(s) >= 2
    /\ LET b == s[1]
           c == s[2]
       IN  IF b = 224 THEN c >= 160 /\ c <= 191
           ELSE IF b = 237 THEN c >= 128 /\ c <= 159
           ELSE IF b = 240 THEN c >= 144 /\ c <= 191
           ELSE IF b = 244 THEN c >= 128 /\ c <= 143
           ELSE c >= 128 /\ c <= 191

\* <<valid, n>>: the first chunk of s (non-empty) is n bytes long and is a
\* well-formed scalar (valid) or an ill-formed run to be replaced.
Utf8Head(s) ==
    LET w == utf8_char_width(s[1])
    IN  IF w = 1 THEN <<TRUE, 1>>
        ELSE IF w = 2 THEN (IF IsCont(s, 2) THEN <<TRUE, 2>> ELSE <<FALSE, 1>>)
        ELSE IF w = 3 THEN
            (IF ~SecondOk(s) THEN <<FALSE, 1>>
             ELSE IF ~IsCont(s, 3) THEN <<FALSE, 2>>
             ELSE <<TRUE, 3>>)
        ELSE IF w = 4 THEN
            (IF ~SecondOk(s) THEN <<FALSE, 1>>
             ELSE IF ~IsCont(s, 3) THEN <<FALSE, 2>>
             ELSE IF ~IsCont(s, 4) THEN <<FALSE, 3>>
             ELSE <<TRUE, 4>>)
        ELSE <<FALSE, 1>>

RECURSIVE from_utf8_lossy(_)
from_utf8_lossy(s) ==
    IF s = <<>> THEN <<>>
    ELSE LET h == Utf8Head(s)
         IN  (IF h[1] THEN SubSeq(s, 1, h[2]) ELSE REPLACEMENT)
                 \o from_utf8_lossy(SubSeq(s, h[2] + 1, Len(s)))

\* std::str::from_utf8(s).is_ok()
RECURSIVE IsUtf8(_)
IsUtf8(s) ==
    IF s = <<>> THEN TRUE
    ELSE LET h == Utf8Head(s)
         IN  h[1] /\ IsUtf8(SubSeq(s, h[2] + 1, Len(s)))

(***************************************************************************)
(* TelnetOption (option.rs).                                               *)
(***************************************************************************)
\* TelnetOption::from with the catch-all arm alone.
TelnetOption_from_opaque(byte) == [variant |-> "Unknown", byte |-> byte]

TelnetOption_from(byte) ==
    IF byte = ECHO THEN [variant |-> "Echo"]
    ELSE IF byte = GA THEN [variant |-> "GoAhead"]
    ELSE IF byte = SGA THEN [variant |-> "SuppressGoAhead"]
    ELSE IF byte = TELOPT_EOR THEN [variant |-> "EndOfRecord"]
    ELSE IF byte = CHARSET THEN [variant |-> "Charset"]
    ELSE IF byte = MCCP2 THEN [variant |-> "MCCP2"]
    ELSE IF byte = GMCP THEN [variant |-> "GMCP"]
    ELSE IF byte = MSSP THEN [variant |-> "MSSP"]
    ELSE IF byte = MSP THEN [variant |-> "MSP"]
    ELSE IF byte = MXP THEN [variant |-> "MXP"]
    ELSE [variant |-> "Unknown", byte |-> byte]

TelnetOption_into_u8(option) ==
    IF option.variant = "Echo" THEN ECHO
    ELSE IF option.variant = "GoAhead" THEN GA
    ELSE IF option.variant = "SuppressGoAhead" THEN SGA
    ELSE IF option.variant = "EndOfRecord" THEN TELOPT_EOR
    ELSE IF option.variant = "Charset" THEN CHARSET
    ELSE IF option.variant = "MCCP2" THEN MCCP2
    ELSE IF option.variant = "GMCP" THEN GMCP
    ELSE IF option.variant = "MSSP" THEN MSSP
    ELSE IF option.variant = "MSP" THEN MSP
    ELSE IF option.variant = "MXP" THEN MXP
    ELSE option.byte

(***************************************************************************)
(* TelnetEvent (event.rs) and the values decode returns.  Strings are the  *)
(* byte sequences of their UTF-8 encoding.                                 *)
(***************************************************************************)
None == [type |-> "None"]
Panic == [type |-> "Panic"]
Character(byte) == [type |-> "Character", byte |-> byte]
Message(s) == [type |-> "Message", message |-> s]
RawMessage(s) == [type |-> "RawMessage", message |-> s]
Negotiation(verb, option) ==
    [type |-> IF verb = DO THEN "Do" ELSE IF verb = DONT THEN "Dont"
              ELSE IF verb = WILL THEN "Will" ELSE "Wont",
     option |-> option]
Subnegotiate(sub) == [type |-> "Subnegotiate", sub |-> sub]
GoAhead == [type |-> "GoAhead"]
Nop == [type |-> "Nop"]

IsNegotiation(e) == e.type \in {"Do", "Dont", "Will", "Wont"}

(***************************************************************************)
(* LINEMODE values (linemode.rs, subnegotiation.rs).                       *)
(***************************************************************************)
SlcNames ==
    <<"Synch", "Brk", "Ip", "Ao", "Ayt", "Eor", "Abort", "Eof", "Susp", "Ec",
      "El", "Ew", "Rp", "Lnext", "Xon", "Xoff", "Forw1", "Forw2", "Mcl", "Mcr",
      "Mcwl", "Mcwr", "Mcub", "Mcuf", "Lp", "Xonc", "Xoffc", "Exit", "Suspc",
      "Dsuspc", "Reprint", "Abortc", "Eofchar", "Suspchar", "Brkc", "Eorc">>

\* SLC_SYNCH = 1 .. SLC_EORC = 36 are the named functions, in this order.
SlcFunction_from(value) ==
    IF value >= 1 /\ value <= SLC_EORC
    THEN [variant |-> SlcNames[value]]
    ELSE [variant |-> "Unknown", value |-> value]

SlcFunction_into_u8(f) ==
    IF f.variant = "Unknown" THEN f.value
    ELSE CHOOSE v \in 1..SLC_EORC : SlcNames[v] = f.variant

\* value & mask != 0 for a single-bit mask
BitSet(value, mask) == (value \div mask) % 2 = 1

Level_from(value) ==
    LET l == value % (SLC_LEVELBITS + 1)
    IN  IF l = 0 THEN "NoSupport"
        ELSE IF l = 1 THEN "CantChange"
        ELSE IF l = 2 THEN "Value"
        ELSE "Default"

Level_into_u8(level) ==
    IF level = "NoSupport" THEN 0
    ELSE IF level = "CantChange" THEN 1
    ELSE IF level = "Value" THEN 2
    ELSE 3

Modifiers_from(value) ==
    [level |-> Level_from(value),
     ack |-> BitSet(value, SLC_ACK),
     flush_in |-> BitSet(value, SLC_FLUSHIN),
     flush_out |-> BitSet(value, SLC_FLUSHOUT)]

\* Modifiers into u8 leaving SLC_FLUSHOUT out.
Modifiers_into_u8_no_flush_out(m) ==
    Level_into_u8(m.level)
        + (IF m.ack THEN SLC_ACK ELSE 0)
        + (IF m.flush_in THEN SLC_FLUSHIN ELSE 0)

Modifiers_into_u8(m) ==
    Level_into_u8(m.level)
        + (IF m.ack THEN SLC_ACK ELSE 0)
        + (IF m.flush_in THEN SLC_FLUSHIN ELSE 0)
        + (IF m.flush_out THEN SLC_FLUSHOUT ELSE 0)

Dispatch_from(function, modifiers) ==
    [function |-> SlcFunction_from(function), modifiers |-> Modifiers_from(modifiers)]

Dispatch_into(d) == <<SlcFunction_into_u8(d.function), Modifiers_into_u8(d.modifiers)>>

\* ForwardMaskOption::from(u8): the variant a verb byte stands for.  The type
\* is imported from linemode.rs but not defined in it; this and the
\* conversion back follow the variants Do(bytes), Dont, Will, Wont,
\* Unknown(byte) that lib.rs uses.
ForwardMaskOption_from(byte) ==
    IF byte = DO THEN [variant |-> "Do", data |-> <<>>]
    ELSE IF byte = DONT THEN [variant |-> "Dont"]
    ELSE IF byte = WILL THEN [variant |-> "Will"]
    ELSE IF byte = WONT THEN [variant |-> "Wont"]
    ELSE [variant |-> "Unknown", byte |-> byte]

\* u8::from(ForwardMaskOption)
ForwardMaskOption_into_u8(option) ==
    IF option.variant = "Do" THEN DO
    ELSE IF option.variant = "Dont" THEN DONT
    ELSE IF option.variant = "Will" THEN WILL
    ELSE IF option.variant = "Wont" THEN WONT
    ELSE option.byte

\* LineModeOption::from(u8): only the variant is used by decode_linemode.
LineModeOption_from(value) ==
    IF value = MODE THEN "Mode"
    ELSE IF value = LINEMODE_SLC THEN "SLC"
    ELSE IF value = LINEMODE_FORWARD_MASK THEN "ForwardMask"
    ELSE "Unknown"

(***************************************************************************)
(* SubnegotiationType values.                                              *)
(***************************************************************************)
WindowSize(w, h) == [kind |-> "WindowSize", width |-> w, height |-> h]
CharsetRequest(charsets) == [kind |-> "CharsetRequest", charsets |-> charsets]
CharsetAccepted(charset) == [kind |-> "CharsetAccepted", charset |-> charset]
CharsetRejected == [kind |-> "CharsetRejected"]
CharsetTTableRejected == [kind |-> "CharsetTTableRejected"]
LineMode(mode) == [kind |-> "LineMode", mode |-> mode]
Environment(envop) == [kind |-> "Environment", op |-> envop]
Unknown(option, bytes) == [kind |-> "Unknown", option |-> option, bytes |-> bytes]

LineMode_Mode(value) == [variant |-> "Mode", value |-> value]
LineMode_SLC(triples) == [variant |-> "SLC", triples |-> triples]
LineMode_ForwardMask(option) == [variant |-> "ForwardMask", option |-> option]
LineMode_Unknown(option, data) == [variant |-> "Unknown", option |-> option, data |-> data]

RECURSIVE SumLen(_)
SumLen(ss) == IF ss = <<>> THEN 0 ELSE Len(Head(ss)) + SumLen(Tail(ss))

(***************************************************************************)
(* NEW-ENVIRON (env.rs).  An Option<T> is <<>> (None) or <<x>> (Some(x)).  *)
(***************************************************************************)
OptNone == <<>>
OptSome(x) == <<x>>

ENV_USER == <<85, 83, 69, 82>>
ENV_JOB == <<74, 79, 66>>
ENV_ACCT == <<65, 67, 67, 84>>
ENV_PRINTER == <<80, 82, 73, 78, 84, 69, 82>>
ENV_SYSTEMTYPE == <<83, 89, 83, 84, 69, 77, 84, 89, 80, 69>>
ENV_DISPLAY == <<68, 73, 83, 80, 76, 65, 89>>

WellKnownVariable_from(value) ==
    IF value = ENV_USER THEN [variant |-> "User"]
    ELSE IF value = ENV_JOB THEN [variant |-> "Job"]
    ELSE IF value = ENV_ACCT THEN [variant |-> "Acct"]
    ELSE IF value = ENV_PRINTER THEN [variant |-> "Printer"]
    ELSE IF value = ENV_SYSTEMTYPE THEN [variant |-> "SystemType"]
    ELSE IF value = ENV_DISPLAY THEN [variant |-> "Display"]
    ELSE [variant |-> "Unknown", name |-> value]

WellKnownVariable_as_str(v) ==
    IF v.variant = "User" THEN ENV_USER
    ELSE IF v.variant = "Job" THEN ENV_JOB
    ELSE IF v.variant = "Acct" THEN ENV_ACCT
    ELSE IF v.variant = "Printer" THEN ENV_PRINTER
    ELSE IF v.variant = "SystemType" THEN ENV_SYSTEMTYPE
    ELSE IF v.variant = "Display" THEN ENV_DISPLAY
    ELSE v.name

WellKnown(name) == [kind |-> "WellKnown", name |-> name]
UserDefined(name) == [kind |-> "UserDefined", name |-> name]

EnvironmentKind_as_u8(k) == IF k.kind = "WellKnown" THEN ENV_VAR ELSE ENV_USERVAR

\* EnvironmentKind::name: Option<String>
EnvironmentKind_name(k) ==
    IF k.name = OptNone THEN OptNone
    ELSE IF k.kind = "WellKnown" THEN OptSome(WellKnownVariable_as_str(k.name[1]))
    ELSE k.name

EnvironmentKind_encoded_size(k) ==
    IF k.name = OptNone THEN 1
    ELSE IF k.kind = "WellKnown" THEN 1 + Len(WellKnownVariable_as_str(k.name[1]))
    ELSE 1 + Len(k.name[1])

Env_Is(vs) == [op |-> "Is", vars |-> vs]
Env_Send(kinds) == [op |-> "Send", vars |-> kinds]
Env_Info(vs) == [op |-> "Info", vars |-> vs]
Env_Unknown(b, data) == [op |-> "Unknown", byte |-> b, data |-> data]

\* The Escape state: <<>> is Unescaped, <<b>> is Escaped(b).
Unescaped == <<>>
Escaped(b) == <<b>>

RECURSIVE env_name_scan(_, _, _, _)
env_name_scan(subvec, i, escape, buf) ==
    IF i >= Len(subvec)
    THEN (IF escape = Unescaped THEN OptSome(<<buf, Len(subvec)>>) ELSE OptNone)
    ELSE LET b == subvec[i + 1]
         IN  IF b = ENV_ESC /\ escape = Unescaped
             THEN env_name_scan(subvec, i + 1, Escaped(ENV_ESC), buf)
             ELSE IF b \in {ENV_VAR, ENV_USERVAR, ENV_VALUE, ENV_ESC} /\ escape = Escaped(ENV_ESC)
             THEN env_name_scan(subvec, i + 1, Unescaped, Append(buf, b))
             ELSE IF b \in {ENV_VALUE, ENV_USERVAR, ENV_VAR} /\ escape = Unescaped
             THEN OptSome(<<buf, i>>)
             ELSE IF b = IAC /\ escape = Unescaped
             THEN env_name_scan(subvec, i + 1, Escaped(IAC), buf)
             ELSE IF b = IAC /\ escape = Escaped(IAC)
             THEN env_name_scan(subvec, i + 1, Unescaped, Append(buf, IAC))
             ELSE IF escape # Unescaped
             THEN OptNone
             ELSE env_name_scan(subvec, i + 1, Unescaped, Append(buf, b))

\* decode_env_name giving back the bytes as they are when the scan fails.
name_or_raw(subvec, r) == IF r = OptNone THEN OptSome(<<subvec, Len(subvec)>>) ELSE r

decode_env_name_lenient(subvec) ==
    IF subvec = <<>> THEN OptNone
    ELSE name_or_raw(subvec, env_name_scan(subvec, 0, Unescaped, <<>>))

decode_env_name(subvec) ==
    IF subvec = <<>> THEN OptNone ELSE env_name_scan(subvec, 0, Unescaped, <<>>)

RECURSIVE env_value_scan(_, _, _, _)
env_value_scan(subvec, i, escape, buf) ==
    IF i >= Len(subvec)
    THEN (IF escape = Unescaped THEN OptSome(<<buf, Len(subvec)>>) ELSE OptNone)
    ELSE LET b == subvec[i + 1]
         IN  IF b = ENV_ESC /\ escape = Unescaped
             THEN env_value_scan(subvec, i + 1, Escaped(ENV_ESC), buf)
             ELSE IF b \in {ENV_VAR, ENV_USERVAR, ENV_VALUE, ENV_ESC} /\ escape = Escaped(ENV_ESC)
             THEN env_value_scan(subvec, i + 1, Unescaped, Append(buf, b))
             ELSE IF b \in {ENV_USERVAR, ENV_VAR} /\ escape = Unescaped
             THEN OptSome(<<buf, i>>)
             ELSE IF b = IAC /\ escape = Unescaped
             THEN env_value_scan(subvec, i + 1, Escaped(IAC), buf)
             ELSE IF b = IAC /\ escape = Escaped(IAC)
             THEN env_value_scan(subvec, i + 1, Unescaped, Append(buf, IAC))
             ELSE IF (b = ENV_VALUE /\ escape = Unescaped) \/ escape # Unescaped
             THEN OptNone
             ELSE env_value_scan(subvec, i + 1, Unescaped, Append(buf, b))

decode_env_value(subvec) ==
    IF subvec = <<>> THEN OptSome(<<<<>>, 0>>) ELSE env_value_scan(subvec, 0, Unescaped, <<>>)

\* Option<(String, Option<Vec<u8>>, usize)>
\* decode_env_var once the name has been decoded: n is decode_env_name's
\* result, v decode_env_value's on the bytes after a VALUE tag.
env_var_value(raw_name, size, v) ==
    IF v = OptNone THEN OptNone
    ELSE IF ~IsUtf8(raw_name) THEN OptNone
    ELSE OptSome(<<raw_name, OptSome(v[1][1]), size + 1 + v[1][2]>>)

env_var_name(subvec, n) ==
    IF n = OptNone THEN OptNone
    ELSE IF n[1][1] = <<>> THEN OptNone
    ELSE IF n[1][2] < Len(subvec) /\ subvec[n[1][2] + 1] = ENV_VALUE
    THEN env_var_value(n[1][1], n[1][2],
                       decode_env_value(SliceFrom(subvec, n[1][2] + 1)))
    ELSE IF ~IsUtf8(n[1][1]) THEN OptNone
    ELSE OptSome(<<n[1][1], OptNone, n[1][2]>>)

decode_env_var(subvec) == env_var_name(subvec, decode_env_name(subvec))

\* The loop of decode_env_is; env_is_push is the rest of an iteration once
\* decode_env_var has returned r for the variable tagged tag.
RECURSIVE env_is_scan(_, _, _)
RECURSIVE env_is_push(_, _, _, _, _)
\* env_is_push with the two tags' kinds exchanged.
env_is_push_swapped(subvec, index, buf, tag, r) ==
    IF r = OptNone THEN OptNone
    ELSE env_is_scan(subvec, index + r[1][3] + 1,
                     Append(buf, <<IF tag = ENV_VAR
                                   THEN UserDefined(OptSome(r[1][1]))
                                   ELSE WellKnown(OptSome(WellKnownVariable_from(r[1][1]))),
                                   r[1][2]>>))

env_is_push(subvec, index, buf, tag, r) ==
    IF r = OptNone THEN OptNone
    ELSE env_is_scan(subvec, index + r[1][3] + 1,
                     Append(buf, <<IF tag = ENV_USERVAR
                                   THEN UserDefined(OptSome(r[1][1]))
                                   ELSE WellKnown(OptSome(WellKnownVariable_from(r[1][1]))),
                                   r[1][2]>>))

env_is_scan(subvec, index, buf) ==
    IF index >= Len(subvec) THEN OptSome(buf)
    ELSE IF subvec[index + 1] \in {ENV_USERVAR, ENV_VAR}
    THEN env_is_push(subvec, index, buf, subvec[index + 1],
                     decode_env_var(SliceFrom(subvec, index + 1)))
    ELSE OptNone

decode_env_is(subvec) == env_is_scan(subvec, 0, <<>>)

decode_env_send_var(kind, name) ==
    IF name # <<>> /\ ~IsUtf8(name) THEN OptNone
    ELSE IF kind = ENV_USERVAR
    THEN OptSome(WellKnown(IF name = <<>> THEN OptNone
                           ELSE OptSome(WellKnownVariable_from(name))))
    ELSE IF kind = ENV_VAR
    THEN OptSome(UserDefined(IF name = <<>> THEN OptNone ELSE OptSome(name)))
    ELSE OptNone

\* The loop of decode_env_send; env_send_push is what follows
\* decode_env_send_var returning k at a tag, env_send_last at the end.
RECURSIVE env_send_scan(_, _, _, _, _)
RECURSIVE env_send_push(_, _, _, _)
env_send_push(subvec, i, buf, k) ==
    IF k = OptNone THEN OptNone
    ELSE env_send_scan(subvec, i + 1, subvec[i + 1], <<>>, Append(buf, k[1]))

env_send_last(buf, k) ==
    IF k = OptNone THEN OptNone ELSE OptSome(Append(buf, k[1]))

env_send_scan(subvec, i, current_kind, current_name, buf) ==
    IF i >= Len(subvec)
    THEN IF current_name # <<>>
         THEN env_send_last(buf, decode_env_send_var(current_kind, current_name))
         ELSE OptSome(buf)
    ELSE IF subvec[i + 1] \in {ENV_USERVAR, ENV_VAR}
    THEN env_send_push(subvec, i, buf, decode_env_send_var(current_kind, current_name))
    ELSE env_send_scan(subvec, i + 1, current_kind,
                       Append(current_name, subvec[i + 1]), buf)

decode_env_send(subvec) ==
    IF subvec = <<>> THEN OptSome(<<>>)
    ELSE env_send_scan(subvec, 1, subvec[1], <<>>, <<>>)

\* Option<TelnetEvent>
\* The event for the op tag once its payload has been decoded to r.
env_event(tag, r) ==
    IF r = OptNone THEN None
    ELSE Subnegotiate(Environment(IF tag = ENV_IS THEN Env_Is(r[1])
                                  ELSE IF tag = ENV_SEND THEN Env_Send(r[1])
                                  ELSE Env_Info(r[1])))

decode_env(subvec) ==
    IF subvec = <<>> THEN None
    ELSE IF subvec[1] \in {ENV_IS, ENV_INFO}
    THEN env_event(subvec[1], decode_env_is(SliceFrom(subvec, 1)))
    ELSE IF subvec[1] = ENV_SEND
    THEN env_event(subvec[1], decode_env_send(SliceFrom(subvec, 1)))
    ELSE Subnegotiate(Environment(Env_Unknown(subvec[1], SliceFrom(subvec, 1))))

(***************************************************************************)
(* The length model (subnegotiation.rs, event.rs).                         *)
(***************************************************************************)
RECURSIVE EnvVarsSize(_)
EnvVarsSize(vs) ==
    IF vs = <<>> THEN 0
    ELSE EnvironmentKind_encoded_size(Head(vs)[1])
            + (IF Head(vs)[2] = OptNone THEN 0 ELSE 1 + Len(Head(vs)[2][1]))
            + EnvVarsSize(Tail(vs))

RECURSIVE EnvKindsSize(_)
EnvKindsSize(ks) ==
    IF ks = <<>> THEN 0
    ELSE EnvironmentKind_encoded_size(Head(ks)) + EnvKindsSize(Tail(ks))

\* SubnegotiationType::len for the Environment variant.  subnegotiation.rs
\* has no arm for it; it is taken to be the op byte plus encoded_size of
\* every variable (env.rs), a VALUE tag and the value bytes where present.
Environment_len(envop) ==
    IF envop.op \in {"Is", "Info"} THEN 1 + EnvVarsSize(envop.vars)
    ELSE IF envop.op = "Send" THEN 1 + EnvKindsSize(envop.vars)
    ELSE 1 + Len(envop.data)

SubnegotiationType_len(sub) ==
    IF sub.kind = "WindowSize" THEN 4
    ELSE IF sub.kind = "CharsetRequest" THEN Len(sub.charsets) + SumLen(sub.charsets) + 1
    ELSE IF sub.kind = "CharsetAccepted" THEN Len(sub.charset) + 1
    ELSE IF sub.kind = "CharsetRejected" THEN 1
    ELSE IF sub.kind = "CharsetTTableRejected" THEN 1
    ELSE IF sub.kind = "LineMode" THEN
        (IF sub.mode.variant = "SLC" THEN Len(sub.mode.triples) * 3 + 1
         ELSE IF sub.mode.variant = "Mode" THEN 2
         ELSE IF sub.mode.variant = "ForwardMask" THEN
            (IF sub.mode.option.variant = "Do" THEN 2 + 16 ELSE 2)
         ELSE 1 + Len(sub.mode.data))
    ELSE IF sub.kind = "Environment" THEN Environment_len(sub.op)
    ELSE Len(sub.bytes)

TelnetEvent_len(event) ==
    IF event.type \in {"Message", "RawMessage"} THEN Len(event.message)
    ELSE IF event.type = "Subnegotiate" THEN 5 + SubnegotiationType_len(event.sub)
    ELSE IF event.type = "Character" THEN 1
    ELSE IF IsNegotiation(event) THEN 6
    ELSE 5

(***************************************************************************)
(* The decoder (lib.rs).                                                   *)
(***************************************************************************)
\* What one decode call leaves behind: the value returned (an event, None,
\* or Panic), the codec's buffer and the transport buffer.
Outcome(ret, cb, buf) == [ret |-> ret, codec_buffer |-> cb, buffer |-> buf]

\* decode_negotiate advancing past the verb only.
decode_negotiate_short(byte_index, buf, option, cb) ==
    IF byte_index + 2 >= Len(buf) THEN Outcome(None, cb, buf)
    ELSE Outcome(Negotiation(option, TelnetOption_from(buf[byte_index + 3])),
                 cb, Advance(buf, byte_index + 2))

decode_negotiate(byte_index, buf, option, cb) ==
    IF byte_index + 2 >= Len(buf) THEN Outcome(None, cb, buf)
    ELSE Outcome(Negotiation(option, TelnetOption_from(buf[byte_index + 3])),
                 cb, Advance(buf, byte_index + 3))

\* decode_suppress_go_ahead skipping any command that follows IAC.
decode_suppress_go_ahead_any(buf, cb) ==
    IF buf[1] = IAC
    THEN IF 1 >= Len(buf) THEN Outcome(None, cb, buf)
         ELSE IF buf[2] = IAC THEN Outcome(Character(IAC), cb, Advance(buf, 2))
         ELSE Outcome(None, cb, Advance(buf, 2))
    ELSE Outcome(None, cb, buf)

decode_suppress_go_ahead(buf, cb) ==
    IF buf[1] = IAC
    THEN IF 1 >= Len(buf) THEN Outcome(None, cb, buf)
         ELSE IF buf[2] = IAC THEN Outcome(Character(IAC), cb, Advance(buf, 2))
         ELSE Outcome(None, cb, buf)
    ELSE Outcome(None, cb, buf)

\* decode_negotiate_about_window_size reading each u16 low byte first.
decode_negotiate_about_window_size_le(subvec) ==
    IF Len(subvec) = 4
    THEN Subnegotiate(WindowSize(subvec[2] * 256 + subvec[1], subvec[4] * 256 + subvec[3]))
    ELSE None

decode_negotiate_about_window_size(subvec) ==
    IF Len(subvec) = 4
    THEN Subnegotiate(WindowSize(subvec[1] * 256 + subvec[2], subvec[3] * 256 + subvec[4]))
    ELSE None

\* chunks_exact(3) mapped to ((function, flag).into(), value as char)
RECURSIVE SlcTriples(_)
SlcTriples(slc_data) ==
    IF Len(slc_data) < 3 THEN <<>>
    ELSE <<<<Dispatch_from(slc_data[1], slc_data[2]), slc_data[3]>>>>
            \o SlcTriples(SliceFrom(slc_data, 3))

decode_linemode(subvec) ==
    IF subvec = <<>> THEN None
    ELSE LET suboption == IF subvec[1] \in {WILL, WONT, DO, DONT} THEN "ForwardMask"
                          ELSE LineModeOption_from(subvec[1])
         IN  IF suboption = "SLC"
             THEN Subnegotiate(LineMode(LineMode_SLC(SlcTriples(SliceFrom(subvec, 1)))))
             ELSE IF suboption = "ForwardMask"
             THEN (IF Len(subvec) < 2 THEN Panic
                   ELSE Subnegotiate(LineMode(LineMode_ForwardMask(
                            IF subvec[1] = DO
                            THEN [variant |-> "Do", data |-> SliceFrom(subvec, 2)]
                            ELSE ForwardMaskOption_from(subvec[1])))))
             ELSE IF suboption = "Mode"
             THEN (IF Len(subvec) < 2 THEN Panic
                   ELSE Subnegotiate(LineMode(LineMode_Mode(subvec[2]))))
             ELSE Subnegotiate(LineMode(LineMode_Unknown(subvec[1], SliceFrom(subvec, 1))))

\* slice.split(|&x| x == separator): an empty slice yields one empty piece.
RECURSIVE Split(_, _)
Split(s, separator) ==
    IF \E i \in 1..Len(s) : s[i] = separator
    THEN LET i == CHOOSE k \in 1..Len(s) :
                    s[k] = separator /\ \A j \in 1..(k - 1) : s[j] # separator
         IN  <<SubSeq(s, 1, i - 1)>> \o Split(SubSeq(s, i + 1, Len(s)), separator)
    ELSE <<s>>

decode_charset(subvec) ==
    IF subvec = <<>> THEN None
    ELSE IF subvec[1] = CHARSET_REQUEST
    THEN (IF Len(subvec) = 1 THEN None
          ELSE LET charsets == Split(SliceFrom(subvec, 2), subvec[2])
               IN  IF charsets = <<>> THEN None
                   ELSE Subnegotiate(CharsetRequest(charsets)))
    ELSE IF subvec[1] = CHARSET_ACCEPTED
    THEN Subnegotiate(CharsetAccepted(SliceFrom(subvec, 1)))
    ELSE IF subvec[1] = CHARSET_REJECTED THEN Subnegotiate(CharsetRejected)
    ELSE IF subvec[1] = CHARSET_TTABLE_REJECTED THEN Subnegotiate(CharsetTTableRejected)
    ELSE None

decode_unknown(option, subvec) == Subnegotiate(Unknown(TelnetOption_from(option), subvec))

\* decode_next_byte without the comparison against max_buffer_length.
decode_next_byte_uncapped(cb, max, buffer_size, byte) ==
    <<Append(cb, byte), buffer_size + 1>>

\* <<codec.buffer, buffer_size>> after decode_next_byte
decode_next_byte(cb, max, buffer_size, byte) ==
    IF buffer_size < max THEN <<Append(cb, byte), buffer_size + 1>>
    ELSE <<cb, buffer_size>>

\* decode_subnegotiation_end returning its event without advancing.
advance_event_len_none(opt, buf, cb) == Outcome(opt, cb, buf)

\* BytesMut::advance panics when asked to go past the end of the buffer.
\* buffer.advance(event.len()) for the decoded event opt, if there is one
advance_event_len(opt, buf, cb) ==
    IF opt = Panic THEN Outcome(Panic, cb, buf)
    ELSE IF opt = None THEN Outcome(None, cb, buf)
    ELSE IF TelnetEvent_len(opt) > Len(buf) THEN Outcome(Panic, cb, buf)
    ELSE Outcome(opt, cb, Advance(buf, TelnetEvent_len(opt)))

decode_subnegotiation_end(invalid, buf, subvec, option, cb) ==
    IF invalid THEN Outcome(None, cb, buf)
    ELSE advance_event_len(
             IF option = NAWS THEN decode_negotiate_about_window_size(subvec)
             ELSE IF option = CHARSET THEN decode_charset(subvec)
             ELSE IF option = LINEMODE THEN decode_linemode(subvec)
             ELSE IF option = ENVIRON THEN decode_env(subvec)
             ELSE decode_unknown(option, subvec),
             buf, cb)

\* The inner loop of decode_bytes: the payload of IAC SB opt up to IAC SE.
RECURSIVE decode_subnegotiation(_, _, _, _, _, _, _)
decode_subnegotiation(byte_index, buf, start, opt, subvec, invalid, cb) ==
    IF byte_index > Len(buf) THEN Outcome(None, cb, Advance(buf, start))
    ELSE IF byte_index = Len(buf) THEN Outcome(Panic, cb, buf)
    ELSE IF buf[byte_index + 1] = IAC
    THEN IF byte_index + 1 > Len(buf) THEN Outcome(None, cb, buf)
         ELSE IF byte_index + 1 = Len(buf) THEN Outcome(Panic, cb, buf)
         ELSE IF buf[byte_index + 2] = SE
         THEN decode_subnegotiation_end(invalid, buf, subvec, opt, cb)
         ELSE IF buf[byte_index + 2] = IAC
         THEN decode_subnegotiation(byte_index + 2, buf, start, opt,
                                    Append(subvec, IAC), invalid, cb)
         ELSE decode_subnegotiation(byte_index + 2, buf, start, opt, subvec, TRUE, cb)
    ELSE decode_subnegotiation(byte_index + 1, buf, start, opt,
                               Append(subvec, buf[byte_index + 1]), invalid, cb)

\* The IAC IAC arm pushing the literal IAC whatever the accumulator holds.
push_iac_uncapped(cb, max, buffer_size) == <<Append(cb, IAC), buffer_size + 1>>

\* <<codec.buffer, codec_buffer_size>> after the IAC IAC arm of decode_bytes
push_iac(cb, max, buffer_size) ==
    IF Len(cb) < max THEN <<Append(cb, IAC), buffer_size + 1>>
    ELSE <<cb, buffer_size>>

\* Every command without an arm of its own skipped whole, as NOP is.
command_advance_both(second) == 2

\* How far byte_index moves over IAC and a command byte that is none of IAC,
\* DO, DONT, WILL, WONT and SB: past both for NOP, past the IAC otherwise.
command_advance(second) == IF second = NOP THEN 2 ELSE 1

\* decode_bytes, one iteration of its loop per unfolding.  cb is codec.buffer,
\* codec_buffer_size the local count kept beside it.
RECURSIVE decode_bytes(_, _, _, _, _, _)
decode_bytes(max, mm, cb, codec_buffer_size, byte_index, buf) ==
    IF byte_index >= Len(buf) THEN Outcome(None, cb, buf)
    ELSE IF buf[byte_index + 1] = IAC
    THEN IF byte_index + 1 >= Len(buf) THEN Outcome(None, cb, buf)
         ELSE LET second == buf[byte_index + 2]
              IN  IF second = IAC
                  THEN (LET n == push_iac(cb, max, codec_buffer_size)
                        IN  decode_bytes(max, mm, n[1], n[2], byte_index + 2, buf))
                  ELSE IF second \in {DO, DONT, WILL, WONT}
                  THEN decode_negotiate(byte_index, buf, second, cb)
                  ELSE IF second = SB
                  THEN (IF byte_index + 2 >= Len(buf)
                        THEN Outcome(None, cb, Advance(buf, byte_index + 2))
                        ELSE decode_subnegotiation(byte_index + 3, buf, byte_index,
                                                   buf[byte_index + 3], <<>>, FALSE, cb))
                  ELSE decode_bytes(max, mm, cb, codec_buffer_size,
                                    byte_index + command_advance(second), buf)
    ELSE IF buf[byte_index + 1] = LF
    THEN IF EndsWith(cb, CR)
         THEN Outcome(Message(from_utf8_lossy(Front(cb))), <<>>, Advance(buf, byte_index + 1))
         ELSE LET n == decode_next_byte(<<>>, max, codec_buffer_size, LF)
              IN  decode_bytes(max, mm, n[1], n[2], byte_index + 1, buf)
    ELSE IF ~mm
    THEN Outcome(Character(buf[byte_index + 1]), <<>>, Advance(buf, byte_index + 1))
    ELSE LET n == decode_next_byte(cb, max, codec_buffer_size, buf[byte_index + 1])
         IN  decode_bytes(max, mm, n[1], n[2], byte_index + 1, buf)

\* Decoder::decode
\* decode flushing a copy of the accumulator instead of taking it.
decode_flush_copy(s, mm, max, cb, buf) ==
    IF s /\ cb # <<>> THEN Outcome(Message(from_utf8_lossy(cb)), cb, buf)
    ELSE IF buf = <<>> THEN Outcome(None, cb, buf)
    ELSE IF s THEN decode_suppress_go_ahead(buf, cb)
    ELSE decode_bytes(max, mm, cb, Len(cb), 0, buf)

decode(s, mm, max, cb, buf) ==
    IF s /\ cb # <<>> THEN Outcome(Message(from_utf8_lossy(cb)), <<>>, buf)
    ELSE IF buf = <<>> THEN Outcome(None, cb, buf)
    ELSE IF s THEN decode_suppress_go_ahead(buf, cb)
    ELSE decode_bytes(max, mm, cb, Len(cb), 0, buf)

(***************************************************************************)
(* The encoder (lib.rs, env.rs).  Each operator is the bytes appended.     *)
(***************************************************************************)
RECURSIVE Concat(_)
Concat(ss) == IF ss = <<>> THEN <<>> ELSE Head(ss) \o Concat(Tail(ss))

encode_negotiate(opt, subopt) == <<IAC, opt, TelnetOption_into_u8(subopt)>>

\* env.rs encode_bytes
\* encode_bytes writing an IAC as it is.
RECURSIVE encode_bytes_single_iac(_)
encode_bytes_single_iac(buf) ==
    IF buf = <<>> THEN <<>>
    ELSE (IF Head(buf) \in {ENV_ESC, ENV_VAR, ENV_VALUE, ENV_USERVAR}
          THEN <<ENV_ESC, Head(buf)>>
          ELSE <<Head(buf)>>) \o encode_bytes_single_iac(Tail(buf))

RECURSIVE encode_bytes(_)
encode_bytes(buf) ==
    IF buf = <<>> THEN <<>>
    ELSE (IF Head(buf) \in {ENV_ESC, ENV_VAR, ENV_VALUE, ENV_USERVAR}
          THEN <<ENV_ESC, Head(buf)>>
          ELSE IF Head(buf) = IAC THEN <<IAC, IAC>>
          ELSE <<Head(buf)>>) \o encode_bytes(Tail(buf))

RECURSIVE encode_env_vars(_)
encode_env_vars(vs) ==
    IF vs = <<>> THEN <<>>
    ELSE LET kind == Head(vs)[1]
             value == Head(vs)[2]
             name == EnvironmentKind_name(kind)
         IN  (IF name = OptNone THEN <<>>
              ELSE <<EnvironmentKind_as_u8(kind)>> \o encode_bytes(name[1])
                    \o (IF value = OptNone THEN <<>>
                        ELSE <<ENV_VALUE>> \o encode_bytes(value[1])))
             \o encode_env_vars(Tail(vs))

RECURSIVE encode_env_send(_)
encode_env_send(ks) ==
    IF ks = <<>> THEN <<>>
    ELSE LET name == EnvironmentKind_name(Head(ks))
         IN  (IF name = OptNone THEN <<>>
              ELSE <<EnvironmentKind_as_u8(Head(ks))>> \o name[1])
             \o encode_env_send(Tail(ks))

encode_env_op(envop) ==
    IF envop.op = "Is" THEN <<ENV_IS>> \o encode_env_vars(envop.vars)
    ELSE IF envop.op = "Send" THEN <<ENV_SEND>> \o encode_env_send(envop.vars)
    ELSE IF envop.op = "Info" THEN <<ENV_INFO>> \o encode_env_vars(envop.vars)
    ELSE <<envop.byte>> \o envop.data

\* The payload loop writing every byte as it is.
EscapeIAC_verbatim(bytes) == bytes

\* The payload loop of the Unknown arm of encode_sb: IAC is doubled.
RECURSIVE EscapeIAC(_)
EscapeIAC(bytes) ==
    IF bytes = <<>> THEN <<>>
    ELSE (IF Head(bytes) = IAC THEN <<IAC, IAC>> ELSE <<Head(bytes)>>)
            \o EscapeIAC(Tail(bytes))

\* charsets joined by sep
RECURSIVE JoinCharsets(_, _)
JoinCharsets(charsets, sep) ==
    IF charsets = <<>> THEN <<>>
    ELSE IF Len(charsets) = 1 THEN Head(charsets)
    ELSE Head(charsets) \o <<sep>> \o JoinCharsets(Tail(charsets), sep)

RECURSIVE EncodeTriples(_)
EncodeTriples(values) ==
    IF values = <<>> THEN <<>>
    ELSE Dispatch_into(Head(values)[1]) \o <<Head(values)[2] % 256>>
            \o EncodeTriples(Tail(values))

\* data.into_iter().take(16) chained with 16 - len zeros
ForwardMaskBytes(data) ==
    [i \in 1..16 |-> IF i <= Len(data) THEN data[i] ELSE 0]

encode_sb(sb) ==
    IF sb.kind = "WindowSize"
    THEN <<IAC, SB, NAWS, sb.width \div 256, sb.width % 256,
           sb.height \div 256, sb.height % 256, IAC, SE>>
    ELSE IF sb.kind = "CharsetRequest"
    THEN <<IAC, SB, CHARSET, CHARSET_REQUEST, 32>> \o JoinCharsets(sb.charsets, 32)
            \o <<IAC, SE>>
    ELSE IF sb.kind = "CharsetAccepted"
    THEN <<IAC, SB, CHARSET, CHARSET_ACCEPTED>> \o sb.charset \o <<IAC, SE>>
    ELSE IF sb.kind = "CharsetRejected"
    THEN <<IAC, SB, CHARSET, CHARSET_REJECTED, IAC, SE>>
    ELSE IF sb.kind = "CharsetTTableRejected"
    THEN <<IAC, SB, CHARSET, CHARSET_TTABLE_REJECTED, IAC, SE>>
    ELSE IF sb.kind = "Environment"
    THEN <<IAC, SB, ENVIRON>> \o encode_env_op(sb.op) \o <<IAC, SE>>
    ELSE IF sb.kind = "Unknown"
    THEN <<IAC, SB, TelnetOption_into_u8(sb.option)>> \o EscapeIAC(sb.bytes) \o <<IAC, SE>>
    ELSE IF sb.mode.variant = "Mode"
    THEN <<IAC, SB, LINEMODE, MODE, sb.mode.value, IAC, SE>>
    ELSE IF sb.mode.variant = "SLC"
    THEN <<IAC, SB, LINEMODE, LINEMODE_SLC>> \o EncodeTriples(sb.mode.triples) \o <<IAC, SE>>
    ELSE IF sb.mode.variant = "ForwardMask"
    THEN (IF sb.mode.option.variant = "Do"
          THEN <<IAC, SB, LINEMODE, DO, LINEMODE_FORWARD_MASK>>
                  \o ForwardMaskBytes(sb.mode.option.data) \o <<IAC, SE>>
          ELSE <<IAC, SB, LINEMODE, ForwardMaskOption_into_u8(sb.mode.option),
                 LINEMODE_FORWARD_MASK, IAC, SE>>)
    ELSE <<IAC, SB, LINEMODE, sb.mode.option>> \o sb.mode.data \o <<IAC, SE>>

\* For an IAC byte the loop writes IAC IAC and then the byte itself.
RECURSIVE encode_raw_message(_)
encode_raw_message(message) ==
    IF message = <<>> THEN <<>>
    ELSE (IF Head(message) = IAC THEN <<IAC, IAC, IAC>> ELSE <<Head(message)>>)
            \o encode_raw_message(Tail(message))

\* encode_message clearing the buffer before it writes.
encode_message_fresh(message, out) ==
    IF EndsWithCRLF(encode_raw_message(message)) THEN encode_raw_message(message)
    ELSE encode_raw_message(message) \o <<CR, LF>>

\* encode_message looking for CR LF at the end of the message only.
encode_message_own(message, out) ==
    out \o encode_raw_message(message)
        \o (IF EndsWithCRLF(encode_raw_message(message)) THEN <<>> ELSE <<CR, LF>>)

\* The whole output buffer after encode_message
encode_message(message, out) ==
    LET written == out \o encode_raw_message(message)
    IN  IF EndsWithCRLF(written) THEN written ELSE written \o <<CR, LF>>

\* encode writing IAC GA for GoAhead.
encode_go_ahead(event, out) ==
    IF event.type = "Do" THEN out \o encode_negotiate(DO, event.option)
    ELSE IF event.type = "Dont" THEN out \o encode_negotiate(DONT, event.option)
    ELSE IF event.type = "Will" THEN out \o encode_negotiate(WILL, event.option)
    ELSE IF event.type = "Wont" THEN out \o encode_negotiate(WONT, event.option)
    ELSE IF event.type = "Subnegotiate" THEN out \o encode_sb(event.sub)
    ELSE IF event.type = "Message" THEN encode_message(event.message, out)
    ELSE IF event.type = "RawMessage" THEN out \o encode_raw_message(event.message)
    ELSE IF event.type = "GoAhead" THEN out \o <<IAC, GA>>
    ELSE out

\* Encoder::encode: the output buffer afterwards
encode(event, out) ==
    IF event.type = "Do" THEN out \o encode_negotiate(DO, event.option)
    ELSE IF event.type = "Dont" THEN out \o encode_negotiate(DONT, event.option)
    ELSE IF event.type = "Will" THEN out \o encode_negotiate(WILL, event.option)
    ELSE IF event.type = "Wont" THEN out \o encode_negotiate(WONT, event.option)
    ELSE IF event.type = "Subnegotiate" THEN out \o encode_sb(event.sub)
    ELSE IF event.type = "Message" THEN encode_message(event.message, out)
    ELSE IF event.type = "RawMessage" THEN out \o encode_raw_message(event.message)
    ELSE out

(***************************************************************************)
(* Bounds and inputs.                                                      *)
(***************************************************************************)
\* max_buffer_length is drawn from 0..MaxCap.
MaxCap == 2

\* Data bytes that a peer sends ahead of a frame.
Prefixes == {<<>>, <<97>>, <<97, CR>>}

\* What follows the frame on the wire.
Suffixes == {<<>>, <<CR, LF>>, <<IAC, DO, ECHO>>, <<98, CR, LF>>}

\* Plain data, escapes and negotiations.
PlainFrames ==
    {<<>>, <<97>>, <<LF>>, <<CR, LF>>, <<97, 200, 99>>,
     <<IAC, IAC>>, <<IAC, NOP>>, <<IAC, 5>>, <<IAC, GA>>,
     <<IAC, DO, ECHO>>, <<IAC, DONT, SGA>>, <<IAC, WILL, 200>>, <<IAC, WONT, NAWS>>}

\* Well-formed subnegotiation frames.
GoodFrames ==
    {<<IAC, SB, NAWS, 0, 80, 0, 24, IAC, SE>>,
     <<IAC, SB, NAWS, IAC, IAC, 0, 0, 24, IAC, SE>>,
     <<IAC, SB, CHARSET, CHARSET_REQUEST, 32, 65, 32, 66, IAC, SE>>,
     <<IAC, SB, CHARSET, CHARSET_REQUEST, 32, IAC, SE>>,
     <<IAC, SB, CHARSET, CHARSET_ACCEPTED, 65, IAC, SE>>,
     <<IAC, SB, CHARSET, CHARSET_REJECTED, IAC, SE>>,
     <<IAC, SB, CHARSET, CHARSET_TTABLE_REJECTED, IAC, SE>>,
     <<IAC, SB, LINEMODE, MODE, 1, IAC, SE>>,
     <<IAC, SB, LINEMODE, LINEMODE_SLC, 7, 0, 48, IAC, SE>>,
     <<IAC, SB, LINEMODE, LINEMODE_SLC, 7, 130, 48, 1, IAC, SE>>,
     <<IAC, SB, LINEMODE, DONT, LINEMODE_FORWARD_MASK, IAC, SE>>,
     <<IAC, SB, LINEMODE, DO, LINEMODE_FORWARD_MASK, 1, 2, IAC, SE>>,
     <<IAC, SB, LINEMODE, DO, LINEMODE_FORWARD_MASK,
       0, 0, 0, 0, 0, 0, 0, 0, 0, 0, 0, 0, 0, 0, 0, 123, IAC, SE>>,
     <<IAC, SB, LINEMODE, 123, 1, 2, IAC, SE>>,
     <<IAC, SB, ENVIRON, ENV_IS, ENV_VAR, 85, 83, 69, 82, ENV_VALUE, 65, IAC, SE>>,
     <<IAC, SB, ENVIRON, ENV_SEND, ENV_USERVAR, 65, IAC, SE>>,
     <<IAC, SB, 99, 1, 2, IAC, SE>>,
     <<IAC, SB, 99, 1, IAC, IAC, IAC, SE>>}

\* Complete frames that the decoder has to reject.
BadFrames ==
    {<<IAC, SB, NAWS, 0, 80, 0, IAC, SE>>,
     <<IAC, SB, NAWS, 0, IAC, 1, 80, 0, 24, IAC, SE>>,
     <<IAC, SB, CHARSET, CHARSET_REQUEST, IAC, SE>>,
     <<IAC, SB, CHARSET, 4, 65, IAC, SE>>,
     <<IAC, SB, CHARSET, IAC, SE>>,
     <<IAC, SB, LINEMODE, MODE, IAC, SE>>,
     <<IAC, SB, LINEMODE, DO, IAC, SE>>,
     <<IAC, SB, LINEMODE, IAC, SE>>,
     <<IAC, SB, ENVIRON, ENV_IS, ENV_VAR, 65, ENV_ESC, IAC, SE>>,
     <<IAC, SB, ENVIRON, ENV_IS, ENV_VAR, ENV_VAR, 65, IAC, SE>>,
     <<IAC, SB, ENVIRON, IAC, SE>>}

Frames == PlainFrames \cup GoodFrames \cup BadFrames

\* Lines and negotiations in every context; a subnegotiation frame alone,
\* after data, and before a negotiation.
Wires ==
    {p \o f \o s : p \in Prefixes, f \in PlainFrames, s \in Suffixes}
        \cup {p \o f \o s : p \in {<<>>, <<97>>}, f \in GoodFrames \cup BadFrames,
                             s \in {<<>>, <<IAC, DO, ECHO>>}}

(***************************************************************************)
(* The state machine.  A host owns one codec and one transport buffer;     *)
(* bytes of the peer's wire arrive in chunks, and the host calls decode,   *)
(* and writes the public flags, whenever it likes.  A panic ends the run.  *)
(*   wire           bytes the peer has sent that have not arrived yet      *)
(*   result         what the last decode call returned                     *)
(*   op             the last operation                                     *)
(*   old_buffer, old_codec_buffer   the buffers as the last decode call    *)
(*                  found them                                             *)
(*   events         the events decode has returned so far, when logged     *)
(*   expected, out_buf   the events a peer encodes and the encoder's       *)
(*                  output buffer                                          *)
(***************************************************************************)
\* TelnetCodec::new(n) beside an empty transport buffer
NewCodec(n) ==
    /\ sga = FALSE
    /\ message_mode = TRUE
    /\ max_buffer_length = n
    /\ codec_buffer = <<>>
    /\ buffer = <<>>
    /\ result = None
    /\ op = "host"
    /\ old_buffer = <<>>
    /\ old_codec_buffer = <<>>
    /\ events = <<>>

Init ==
    /\ \E n \in 0..MaxCap : NewCodec(n)
    /\ wire \in Wires
    /\ expected = <<>>
    /\ out_buf = <<>>

\* What a step of the host other than a decode call leaves in the record of
\* the last decode call.
Forget ==
    /\ result' = None
    /\ old_buffer' = <<>>
    /\ old_codec_buffer' = <<>>
    /\ op' = "host"

\* The transport reads the next k bytes of the wire into the buffer.
Recv(k) ==
    /\ result # Panic
    /\ k <= Len(wire)
    /\ buffer' = buffer \o SubSeq(wire, 1, k)
    /\ wire' = Advance(wire, k)
    /\ Forget
    /\ UNCHANGED <<sga, message_mode, max_buffer_length, codec_buffer,
                   events, expected, out_buf>>

\* One call of Decoder::decode; log says whether the host keeps the event.
Returned(o, log) ==
    /\ result' = o.ret
    /\ codec_buffer' = o.codec_buffer
    /\ buffer' = o.buffer
    /\ events' = IF log /\ o.ret \notin {None, Panic}
                 THEN Append(events, o.ret) ELSE events

DecodeCall(log) ==
    /\ result # Panic
    /\ Returned(decode(sga, message_mode, max_buffer_length, codec_buffer, buffer), log)
    /\ old_buffer' = buffer
    /\ old_codec_buffer' = codec_buffer
    /\ op' = "decode"
    /\ UNCHANGED <<sga, message_mode, max_buffer_length, wire, expected, out_buf>>

Decode == DecodeCall(FALSE)

\* The host writes codec.sga.
SetSga ==
    /\ result # Panic
    /\ sga' = ~sga
    /\ Forget
    /\ UNCHANGED <<message_mode, max_buffer_length, codec_buffer, buffer,
                   wire, events, expected, out_buf>>

\* The host writes codec.message_mode.
SetMessageMode ==
    /\ result # Panic
    /\ message_mode' = ~message_mode
    /\ Forget
    /\ UNCHANGED <<sga, max_buffer_length, codec_buffer, buffer,
                   wire, events, expected, out_buf>>

Next ==
    \/ Recv(1)
    \/ Decode
    \/ SetSga
    \/ SetMessageMode

Spec == Init /\ [][Next]_vars

(***************************************************************************)
(* Properties of single decode calls, stated over the record of the last   *)
(* call: op, old_buffer, old_codec_buffer, result.                         *)
(***************************************************************************)
\* The codec scans lines: neither flag has been moved off its default.
InLineMode == ~sga /\ message_mode

\* Bytes that the scan appends to the accumulator and nothing else.
PlainData(s) == \A i \in 1..Len(s) : s[i] # IAC /\ s[i] # LF

\* The accumulator after data bytes arrive under the cap: bytes beyond it drop.
Accumulate(acc, data, max) ==
    IF Len(acc) >= max THEN acc
    ELSE acc \o SubSeq(data, 1, IF Len(data) < max - Len(acc)
                                THEN Len(data) ELSE max - Len(acc))

HasTerminator(buf) == \E i \in 1..(Len(buf) - 1) : buf[i] = IAC /\ buf[i + 1] = SE

\* The transport holds a proper prefix of a frame and nothing else.
TruncatedFrame(buf) ==
    \/ buf = <<IAC>>
    \/ Len(buf) = 2 /\ buf[1] = IAC /\ buf[2] \in {DO, DONT, WILL, WONT}
    \/ buf = <<IAC, SB>>
    \/ Len(buf) >= 3 /\ buf[1] = IAC /\ buf[2] = SB /\ ~HasTerminator(buf)

\* C2: a decode call that finds only a proper prefix of a frame in the
\* transport returns None and leaves the transport as it found it.
C2_TruncatedFrameUntouched ==
    (op = "decode" /\ ~sga /\ TruncatedFrame(old_buffer))
        => (result = None /\ buffer = old_buffer)

\* C3: no decode call panics, whatever the transport holds and however the
\* flags are set.
C3_DecodeNeverPanics == result # Panic

\* C4: the accumulator never holds more than max_buffer_length bytes, and a
\* line-mode call that finds the accumulator full and only data bytes in the
\* transport drops them all.
C4_AccumulatorCap ==
    /\ Len(codec_buffer) <= max_buffer_length
    /\ (op = "decode" /\ InLineMode /\ Len(old_codec_buffer) = max_buffer_length
            /\ PlainData(old_buffer))
          => (result = None /\ codec_buffer = old_codec_buffer)

\* A call that found a full, non-empty accumulator and data bytes to drop.
C4_Witness ==
    /\ op = "decode" /\ InLineMode
    /\ max_buffer_length > 0
    /\ Len(old_codec_buffer) = max_buffer_length
    /\ old_buffer # <<>> /\ PlainData(old_buffer)
    /\ result = None /\ codec_buffer = old_codec_buffer

\* Complete frames that decode rejects without failing.
MalformedFrames ==
    {<<IAC, SB, NAWS, 0, 80, 0, IAC, SE>>,
     <<IAC, SB, NAWS, 0, IAC, 1, 80, 0, 24, IAC, SE>>,
     <<IAC, SB, CHARSET, CHARSET_REQUEST, IAC, SE>>,
     <<IAC, SB, ENVIRON, ENV_IS, ENV_VAR, 65, ENV_ESC, IAC, SE>>,
     <<IAC, SB, ENVIRON, IAC, SE>>}

\* C6: a decode call that finds exactly one complete malformed
\* subnegotiation frame in the transport consumes it all and returns None.
C6_MalformedFrameConsumed ==
    (op = "decode" /\ ~sga /\ old_buffer \in MalformedFrames)
        => (result = None /\ buffer = <<>>)

\* The index of the SE that ends the frame whose payload starts after j bytes;
\* 0 when there is none.
RECURSIVE FindSE(_, _)
FindSE(buf, j) ==
    IF j + 1 >= Len(buf) THEN 0
    ELSE IF buf[j + 1] = IAC
    THEN (IF buf[j + 2] = SE THEN j + 2 ELSE FindSE(buf, j + 2))
    ELSE FindSE(buf, j + 1)

\* The number of bytes up to and including the first frame's IAC SE.
FrameEnd(buf) ==
    LET starts == {i \in 1..(Len(buf) - 1) : buf[i] = IAC /\ buf[i + 1] = SB}
    IN  IF starts = {} THEN 0
        ELSE FindSE(buf, (CHOOSE i \in starts : \A k \in starts : i <= k) + 2)

\* C7: a decode call that returns a Subnegotiate event has removed from the
\* transport exactly the bytes up to and including the frame's IAC SE.
C7_SubnegotiateAdvancesPastFrame ==
    (op = "decode" /\ result.type = "Subnegotiate")
        => buffer = SliceFrom(old_buffer, FrameEnd(old_buffer))

\* The position of the first LF of the transport, data bytes before it.
FirstLF(buf) ==
    {i \in 1..Len(buf) : buf[i] = LF /\ PlainData(SubSeq(buf, 1, i - 1))}

\* C9: a line-mode call that scans data bytes and then an LF, the accumulator
\* then ending with CR, returns Message(accumulator without the CR), empties
\* the accumulator and leaves in the transport exactly the bytes after the LF.
C9_LineFlush ==
    \A i \in FirstLF(old_buffer) :
        LET acc == Accumulate(old_codec_buffer, SubSeq(old_buffer, 1, i - 1),
                              max_buffer_length)
        IN  (op = "decode" /\ InLineMode /\ EndsWith(acc, CR))
                => /\ result = Message(from_utf8_lossy(SubSeq(acc, 1, Len(acc) - 1)))
                   /\ codec_buffer = <<>>
                   /\ buffer = SliceFrom(old_buffer, i)

\* A flush of a non-empty line that leaves bytes behind the LF.
C9_Witness ==
    /\ op = "decode" /\ InLineMode
    /\ \E i \in FirstLF(old_buffer) :
          /\ i < Len(old_buffer)
          /\ result.type = "Message" /\ result.message # <<>>
          /\ codec_buffer = <<>>
          /\ buffer = SliceFrom(old_buffer, i)

\* C10: a line-mode call that scans data bytes and then a final LF, the
\* accumulator then not ending with CR, returns None and leaves in the
\* accumulator the bytes it had, then the LF if the cap allows.
C10_BareNewlineIsData ==
    (op = "decode" /\ InLineMode /\ old_buffer # <<>>
        /\ FirstLF(old_buffer) = {Len(old_buffer)}
        /\ ~EndsWith(Accumulate(old_codec_buffer, Front(old_buffer), max_buffer_length), CR))
      => /\ result = None
         /\ codec_buffer = Accumulate(Accumulate(old_codec_buffer, Front(old_buffer),
                                                 max_buffer_length),
                                      <<LF>>, max_buffer_length)

(***************************************************************************)
(* A peer encodes events; its output reaches the codec in chunks, and the  *)
(* host calls decode after each chunk until decode returns None.           *)
(***************************************************************************)
\* max_buffer_length of the codecs that read whole lines.
LineCap == 8

\* The longest sequence of events the peer encodes.
MaxEvents == 2

\* The output buffer after encoding the events es in order.
RECURSIVE EncodeInto(_, _)
EncodeInto(es, out) ==
    IF es = <<>> THEN out ELSE EncodeInto(Tail(es), encode(Head(es), out))

\* Events of a line-mode session whose lines fit the cap.
LineEvents ==
    {Message(<<97>>), Message(<<98, 99>>),
     Negotiation(DO, TelnetOption_from(ECHO)),
     Negotiation(WILL, TelnetOption_from(NAWS)),
     Subnegotiate(WindowSize(80, 24))}

EventSeqs ==
    UNION {[1..n -> LineEvents] : n \in 1..MaxEvents}

InitChunk ==
    /\ NewCodec(LineCap)
    /\ expected \in EventSeqs
    /\ out_buf = EncodeInto(expected, <<>>)
    /\ wire = out_buf

\* The next chunk of k bytes arrives, once decode has returned None.
ChunkRecv(k) ==
    /\ op = "host" \/ (op = "decode" /\ result = None)
    /\ k <= Len(wire)
    /\ buffer' = buffer \o SubSeq(wire, 1, k)
    /\ wire' = Advance(wire, k)
    /\ result' = None
    /\ old_buffer' = <<>>
    /\ old_codec_buffer' = <<>>
    /\ op' = "recv"
    /\ UNCHANGED <<sga, message_mode, max_buffer_length, codec_buffer,
                   events, expected, out_buf>>

\* The host calls decode after a chunk, and again after every event.
ChunkDecode ==
    /\ op = "recv" \/ (op = "decode" /\ result # None)
    /\ DecodeCall(TRUE)

ChunkNext ==
    \/ \E k \in 1..Len(wire) : ChunkRecv(k)
    \/ ChunkDecode

SpecChunk == InitChunk /\ [][ChunkNext]_vars

\* Every chunk has arrived and decode has returned None after the last one.
Drained == wire = <<>> /\ op = "decode" /\ result = None

\* C1: whatever the chunks, once all bytes of the encoded events have arrived
\* and decode has returned None, the events decoded are the events encoded,
\* in order.
C1_ChunkInvariance == Drained => events = expected

\* The partial line d, a negotiation, and the rest d2 of the line with its
\* CR LF: the peer writes d with RawMessage and d2 with Message.
InitPartialLine ==
    /\ NewCodec(LineCap)
    /\ \E d \in {<<97>>, <<97, 98>>}, v \in {DO, DONT, WILL, WONT},
          b \in {ECHO, 200}, d2 \in {<<>>, <<99>>} :
          /\ out_buf = EncodeInto(<<RawMessage(d),
                                    Negotiation(v, TelnetOption_from(b)),
                                    Message(d2)>>, <<>>)
          /\ expected = <<Negotiation(v, TelnetOption_from(b)), Message(d \o d2)>>
    /\ wire = out_buf

SpecPartialLine == InitPartialLine /\ [][ChunkNext]_vars

\* The data bytes at the head of s, up to its first IAC.
RECURSIVE DataBefore(_)
DataBefore(s) ==
    IF s = <<>> \/ Head(s) = IAC THEN <<>> ELSE <<Head(s)>> \o DataBefore(Tail(s))

\* C8: when a negotiation arrives inside a partial line, the negotiation is
\* the first event, the accumulator then holds the line's earlier bytes once,
\* and the events decoded in the end are the negotiation and then the Message
\* of the whole line.
C8_NegotiationInsideLine ==
    /\ (op = "decode" /\ IsNegotiation(result))
          => (events = <<result>> /\ codec_buffer = DataBefore(out_buf))
    /\ Drained => events = expected

(***************************************************************************)
(* One event is encoded into an empty buffer, and the buffer is fed in     *)
(* full to a fresh codec.                                                  *)
(***************************************************************************)
RoundTripEvents ==
    {Message(<<97>>), Message(<<>>), Message(<<97, 98>>), RawMessage(<<97>>)}
        \cup {Negotiation(v, TelnetOption_from(b)) :
                v \in {DO, DONT, WILL, WONT},
                b \in {ECHO, SGA, NAWS, LINEMODE, CHARSET, ENVIRON, 200}}
        \cup {Subnegotiate(sub) : sub \in
                {WindowSize(80, 24), WindowSize(65280, 80),
                 CharsetRequest(<<<<65>>, <<66, 67>>>>),
                 CharsetAccepted(<<65>>), CharsetRejected, CharsetTTableRejected,
                 LineMode(LineMode_Mode(1)),
                 LineMode(LineMode_SLC(<<<<Dispatch_from(7, 130), 48>>>>)),
                 LineMode(LineMode_ForwardMask([variant |-> "Do", data |-> <<1, 2>>])),
                 LineMode(LineMode_ForwardMask(ForwardMaskOption_from(DONT))),
                 LineMode(LineMode_Unknown(123, <<1, 2>>)),
                 Environment(Env_Is(<<<<WellKnown(OptSome(WellKnownVariable_from(ENV_USER))),
                                        OptSome(<<65>>)>>>>)),
                 Environment(Env_Send(<<UserDefined(OptSome(<<65>>))>>)),
                 Unknown(TelnetOption_from(99), <<1, 2>>),
                 Unknown(TelnetOption_from(99), <<1, IAC>>)}}

InitRoundTrip ==
    /\ NewCodec(LineCap)
    /\ expected \in {<<e>> : e \in RoundTripEvents}
    /\ out_buf = <<>>
    /\ wire = <<>>

\* Encoder::encode of the event into the empty output buffer
Encode ==
    /\ op = "host"
    /\ out_buf' = encode(expected[1], out_buf)
    /\ op' = "encode"
    /\ UNCHANGED <<sga, message_mode, max_buffer_length, codec_buffer, buffer,
                   result, old_buffer, old_codec_buffer, wire, events, expected>>

\* The whole output reaches the decoding side's transport buffer.
Feed ==
    /\ op = "encode"
    /\ buffer' = buffer \o out_buf
    /\ op' = "recv"
    /\ UNCHANGED <<sga, message_mode, max_buffer_length, codec_buffer,
                   result, old_buffer, old_codec_buffer, wire, events,
                   expected, out_buf>>

DecodeFed == op = "recv" /\ DecodeCall(TRUE)

RoundTripNext == Encode \/ Feed \/ DecodeFed

SpecRoundTrip == InitRoundTrip /\ [][RoundTripNext]_vars

\* C5: decode of the encoding of an event returns that event.
C5_RoundTrip == op = "decode" => result = expected[1]

\* C11: a line-mode call on an empty accumulator that finds more than
\* max_buffer_length data bytes and then CR LF returns the Message of the
\* first max_buffer_length data bytes.
C11_OverflowFlush ==
    (op = "decode" /\ InLineMode /\ old_codec_buffer = <<>>
        /\ Len(old_buffer) > max_buffer_length + 2
        /\ EndsWithCRLF(old_buffer)
        /\ PlainData(SubSeq(old_buffer, 1, Len(old_buffer) - 2))
        /\ \A i \in 1..(Len(old_buffer) - 2) : old_buffer[i] # CR)
      => result = Message(from_utf8_lossy(SubSeq(old_buffer, 1, max_buffer_length)))

\* C12: a line-mode call on an empty accumulator that finds IAC v b at the
\* head of the transport, v one of DO, DONT, WILL, WONT, returns the event of
\* v carrying TelnetOption::from(b), removes exactly those three bytes and
\* leaves the accumulator empty.
C12_NegotiationDecode ==
    (op = "decode" /\ InLineMode /\ old_codec_buffer = <<>>
        /\ Len(old_buffer) >= 3 /\ old_buffer[1] = IAC
        /\ old_buffer[2] \in {DO, DONT, WILL, WONT})
      => /\ result = [type |-> IF old_buffer[2] = DO THEN "Do"
                               ELSE IF old_buffer[2] = DONT THEN "Dont"
                               ELSE IF old_buffer[2] = WILL THEN "Will" ELSE "Wont",
                      option |-> TelnetOption_from(old_buffer[3])]
         /\ buffer = SubSeq(old_buffer, 4, Len(old_buffer))
         /\ codec_buffer = <<>>

\* A negotiation with an unregistered option byte decoded ahead of more bytes.
C12_Witness ==
    /\ op = "decode" /\ InLineMode /\ old_codec_buffer = <<>>
    /\ Len(old_buffer) > 3
    /\ SubSeq(old_buffer, 1, 3) = <<IAC, WILL, 200>>
    /\ result.type = "Will"
    /\ buffer = SubSeq(old_buffer, 4, Len(old_buffer))

\* C13: a call with sga set and a non-empty accumulator returns one Message
\* holding the accumulator's contents, empties the accumulator and leaves the
\* transport as it was, whatever the transport holds.
C13_SgaFlush ==
    (op = "decode" /\ sga /\ old_codec_buffer # <<>>)
      => /\ result = Message(from_utf8_lossy(old_codec_buffer))
         /\ codec_buffer = <<>>
         /\ buffer = old_buffer

\* The flush happened while the transport held bytes of its own.
C13_Witness ==
    /\ op = "decode" /\ sga /\ old_codec_buffer # <<>>
    /\ old_buffer # <<>>
    /\ result = Message(from_utf8_lossy(old_codec_buffer))
    /\ codec_buffer = <<>>

\* C14: a call with sga set and an empty accumulator returns Character(IAC)
\* and consumes two bytes when the transport begins IAC IAC; on every other
\* transport it returns None and changes neither transport nor accumulator.
C14_SgaParsing ==
    (op = "decode" /\ sga /\ old_codec_buffer = <<>>)
      => IF Len(old_buffer) >= 2 /\ old_buffer[1] = IAC /\ old_buffer[2] = IAC
         THEN /\ result = Character(IAC)
              /\ buffer = SubSeq(old_buffer, 3, Len(old_buffer))
              /\ codec_buffer = <<>>
         ELSE /\ result = None
              /\ buffer = old_buffer
              /\ codec_buffer = <<>>

\* An escaped IAC was read in character mode.
C14_Witness ==
    /\ op = "decode" /\ sga /\ old_codec_buffer = <<>>
    /\ Len(old_buffer) >= 2 /\ old_buffer[1] = IAC /\ old_buffer[2] = IAC
    /\ result = Character(IAC)
    /\ Len(buffer) = Len(old_buffer) - 2

\* The payload bytes of a frame's raw payload, IAC IAC read as one IAC; an IAC
\* followed by anything else is marked -1.
RECURSIVE Unescape(_)
Unescape(s) ==
    IF s = <<>> THEN <<>>
    ELSE IF s[1] # IAC THEN <<s[1]>> \o Unescape(Tail(s))
    ELSE IF Len(s) >= 2 /\ s[2] = IAC THEN <<IAC>> \o Unescape(Tail(Tail(s)))
    ELSE <<-1>>

\* The payload of the complete NAWS frame at the head of buf.
NawsPayload(buf) == Unescape(SubSeq(buf, 4, FindSE(buf, 3) - 2))

\* What the claim expects of a NAWS payload.
NawsExpected(p) ==
    IF Len(p) = 4
    THEN Subnegotiate(WindowSize(256 * p[1] + p[2], 256 * p[3] + p[4]))
    ELSE None

\* C15: a call outside character mode that finds a complete IAC SB NAWS frame
\* at the head of the transport returns WindowSize(256*b0+b1, 256*b2+b3) when
\* the payload is exactly four bytes b0..b3, and no event for any other
\* payload length.
C15_NawsDecode ==
    (op = "decode" /\ ~sga /\ Len(old_buffer) >= 5
        /\ SubSeq(old_buffer, 1, 3) = <<IAC, SB, NAWS>>
        /\ FindSE(old_buffer, 3) # 0
        /\ \A i \in 1..Len(NawsPayload(old_buffer)) : NawsPayload(old_buffer)[i] # -1)
      => result = NawsExpected(NawsPayload(old_buffer))

\* A window 65280 columns wide, its high byte escaped on the wire, was decoded.
C15_Witness ==
    /\ op = "decode" /\ ~sga /\ Len(old_buffer) >= 10
    /\ SubSeq(old_buffer, 1, 10) = <<IAC, SB, NAWS, IAC, IAC, 0, 0, 24, IAC, SE>>
    /\ result = Subnegotiate(WindowSize(65280, 24))

(***************************************************************************)
(* The encoder alone: the caller encodes event after event into one output *)
(* buffer and takes the bytes out of it from time to time.  old_buffer     *)
(* holds the output buffer as it was before the last encode call.          *)
(***************************************************************************)
\* encode is called while the output buffer holds at most OutCap bytes.
OutCap == 3

\* The events handed to encode.  The two payloads holding IAC are Strings
\* whose bytes are not UTF-8 (String::from_utf8_unchecked).
EncodeEvents ==
    RoundTripEvents
        \cup {GoAhead, Nop, Character(97), Character(IAC),
              Message(<<LF>>), Message(<<97, CR, LF>>), Message(<<CR>>),
              RawMessage(<<>>), RawMessage(<<CR>>), RawMessage(<<97, CR, LF>>),
              Message(<<97, IAC>>), RawMessage(<<IAC>>)}
        \cup {Subnegotiate(sub) : sub \in
                {WindowSize(255, 65535), CharsetRequest(<<>>),
                 CharsetRequest(<<<<65>>>>), CharsetAccepted(<<>>),
                 LineMode(LineMode_SLC(<<>>)),
                 LineMode(LineMode_ForwardMask([variant |-> "Do", data |-> <<IAC>>])),
                 LineMode(LineMode_Unknown(123, <<>>)),
                 Unknown(TelnetOption_from(99), <<>>),
                 Unknown(TelnetOption_from(99), <<IAC, IAC>>)}}

InitEncode ==
    /\ NewCodec(LineCap)
    /\ expected = <<>>
    /\ out_buf = <<>>
    /\ wire = <<>>

\* Encoder::encode of event e into the output buffer
EncodeEvent(e) ==
    /\ Len(out_buf) <= OutCap
    /\ old_buffer' = out_buf
    /\ expected' = <<e>>
    /\ out_buf' = encode(e, out_buf)
    /\ op' = "encode"
    /\ UNCHANGED <<sga, message_mode, max_buffer_length, codec_buffer, buffer,
                   result, old_codec_buffer, wire, events>>

\* The caller takes every byte out of the output buffer.
Flush ==
    /\ out_buf # <<>>
    /\ out_buf' = <<>>
    /\ op' = "flush"
    /\ UNCHANGED <<sga, message_mode, max_buffer_length, codec_buffer, buffer,
                   result, old_buffer, old_codec_buffer, wire, events, expected>>

EncodeNext == (\E e \in EncodeEvents : EncodeEvent(e)) \/ Flush

SpecEncode == InitEncode /\ [][EncodeNext]_vars

\* The bytes the last encode call appended.
Appended == SubSeq(out_buf, Len(old_buffer) + 1, Len(out_buf))

PayloadWritten == old_buffer \o encode_raw_message(expected[1].message)

\* C17: after encode(Message(s)) the output buffer ends with CR LF: the
\* payload is written and CR LF is appended only if the buffer does not then
\* already end with it; encode(RawMessage(s)) writes the payload and never
\* appends CR LF.
C17_MessageLineEnding ==
    /\ (op = "encode" /\ expected[1].type = "Message")
          => /\ EndsWithCRLF(out_buf)
             /\ out_buf = IF EndsWithCRLF(PayloadWritten) THEN PayloadWritten
                          ELSE PayloadWritten \o <<CR, LF>>
    /\ (op = "encode" /\ expected[1].type = "RawMessage")
          => out_buf = PayloadWritten

\* A Message of a lone LF written behind a CR already in the output buffer:
\* the buffer ends with CR LF and nothing is appended.
C17_Witness ==
    /\ op = "encode" /\ expected[1] = Message(<<LF>>)
    /\ old_buffer = <<CR>>
    /\ out_buf = <<CR, LF>>

\* C18: encode of GoAhead, Nop or Character leaves the output buffer as it
\* was (the call returns Ok(()) like every encode call).
C18_DroppedEvents ==
    (op = "encode" /\ expected[1].type \in {"GoAhead", "Nop", "Character"})
      => out_buf = old_buffer

\* GoAhead was handed to encode while the output buffer held bytes.
C18_Witness ==
    /\ op = "encode" /\ expected[1] = GoAhead
    /\ old_buffer # <<>>
    /\ out_buf = old_buffer

\* The verb byte of a negotiation event.
VerbByte(e) ==
    IF e.type = "Do" THEN DO ELSE IF e.type = "Dont" THEN DONT
    ELSE IF e.type = "Will" THEN WILL ELSE WONT

\* C19: encode of Do, Dont, Will or Wont of an option appends exactly IAC,
\* the verb and u8::from(option), and TelnetEvent::len() of the event is 3.
C19_NegotiationLength ==
    (op = "encode" /\ IsNegotiation(expected[1]))
      => /\ Appended = <<IAC, VerbByte(expected[1]),
                         TelnetOption_into_u8(expected[1].option)>>
         /\ TelnetEvent_len(expected[1]) = 3

\* C20: for every Subnegotiate(sub) the encoder frames other than
\* Environment, 5 + sub.len() is the number of bytes encode appends, payloads
\* holding IAC bytes included.
C20_SubnegotiationLength ==
    (op = "encode" /\ expected[1].type = "Subnegotiate"
        /\ expected[1].sub.kind # "Environment")
      => Len(Appended) = 5 + SubnegotiationType_len(expected[1].sub)

(***************************************************************************)
(* LINEMODE SLC lists encoded and decoded back.                            *)
(***************************************************************************)
\* A list holds at most MaxTriples triples.
MaxTriples == 2

\* (Dispatch, char) triples: named and unknown functions, every modifier
\* bit, and characters below, at and above U+00FF.
SlcTripleSet ==
    {<<Dispatch_from(1, 0), 48>>,
     <<Dispatch_from(36, 227), 10>>,
     <<Dispatch_from(200, 130), 0>>,
     <<Dispatch_from(7, 65), 254>>,
     <<Dispatch_from(7, 3), 255>>,
     <<Dispatch_from(7, 3), 321>>}

RECURSIVE SlcLists(_)
SlcLists(n) ==
    IF n = 0 THEN {<<>>}
    ELSE SlcLists(n - 1)
            \cup {<<t>> \o l : t \in SlcTripleSet, l \in SlcLists(n - 1)}

InitSlc ==
    /\ NewCodec(LineCap)
    /\ expected \in {<<Subnegotiate(LineMode(LineMode_SLC(l)))>> :
                        l \in SlcLists(MaxTriples) \ {<<>>}}
    /\ out_buf = <<>>
    /\ wire = <<>>

SpecSlc == InitSlc /\ [][RoundTripNext]_vars

\* C21: decoding the encoding of Subnegotiate(LineMode(SLC(list))), list not
\* empty, returns an SLC event holding the same triples in the same order.
C21_SlcRoundTrip ==
    (op = "decode" /\ expected[1].sub.mode.triples # <<>>)
      => /\ result.type = "Subnegotiate"
         /\ result.sub = LineMode(LineMode_SLC(expected[1].sub.mode.triples))

(***************************************************************************)
(* LINEMODE FORWARDMASK DO masks encoded and decoded back.                 *)
(***************************************************************************)
\* Short masks hold at most MaxMask bytes.
MaxMask == 3

RECURSIVE MaskSeqs(_)
MaskSeqs(n) ==
    IF n = 0 THEN {<<>>}
    ELSE MaskSeqs(n - 1)
            \cup {<<b>> \o m : b \in {0, 1, IAC}, m \in MaskSeqs(n - 1)}

\* The short masks, and masks of 16 and 17 bytes.
Masks == MaskSeqs(MaxMask) \cup {[i \in 1..16 |-> i], [i \in 1..17 |-> i]}

InitMask ==
    /\ NewCodec(LineCap)
    /\ expected \in {<<Subnegotiate(LineMode(LineMode_ForwardMask(
                            [variant |-> "Do", data |-> m])))>> : m \in Masks}
    /\ out_buf = <<>>
    /\ wire = <<>>

SpecMask == InitMask /\ [][RoundTripNext]_vars

\* The first min(len, 16) bytes of mask followed by zeros.
Padded(mask) == [i \in 1..16 |-> IF i <= Len(mask) THEN mask[i] ELSE 0]

\* C22: encode of LineMode(ForwardMask(Do(mask))) writes IAC SB LINEMODE DO
\* FORWARD_MASK, the 16 bytes of the padded or truncated mask and IAC SE, and
\* decoding that output returns ForwardMask(Do(v)) with v of 16 bytes.
C22_ForwardMaskPadding ==
    /\ op \in {"encode", "recv", "decode"}
          => out_buf = <<IAC, SB, LINEMODE, DO, LINEMODE_FORWARD_MASK>>
                          \o Padded(expected[1].sub.mode.option.data) \o <<IAC, SE>>
    /\ op = "decode"
          => /\ result.type = "Subnegotiate"
             /\ result.sub.kind = "LineMode"
             /\ result.sub.mode.variant = "ForwardMask"
             /\ result.sub.mode.option.variant = "Do"
             /\ Len(result.sub.mode.option.data) = 16

(***************************************************************************)
(* The NEW-ENVIRON functions of env.rs applied to byte sequences.  wire is *)
(* the byte sequence drawn, old_buffer the slice handed to the last        *)
(* decoding function, result what that function returned, out_buf what the *)
(* last encoding function wrote, and expected what was encoded.            *)
(***************************************************************************)
\* The byte sequences drawn hold at most MaxEnvLen bytes.
MaxEnvLen == 3

EnvAlphabet == {ENV_VAR, ENV_VALUE, ENV_ESC, ENV_USERVAR, 65, IAC}

RECURSIVE EnvSeqs(_)
EnvSeqs(n) ==
    IF n = 0 THEN {<<>>}
    ELSE EnvSeqs(n - 1) \cup {<<b>> \o s : b \in EnvAlphabet, s \in EnvSeqs(n - 1)}

\* Longer payloads: several variables, values, escapes, well-known names.
EnvPayloads ==
    {<<ENV_VAR>> \o ENV_USER \o <<ENV_VALUE, 65, ENV_USERVAR, 66, ENV_USERVAR, 67, ENV_VALUE>>,
     <<ENV_USERVAR, 65, ENV_VAR, 66, 67, ENV_VALUE, ENV_ESC, ENV_VAR, IAC, IAC>>,
     <<ENV_VAR, 65, ENV_VALUE, 66, ENV_ESC, 67, ENV_USERVAR, 68>>,
     <<ENV_VAR, 65, ENV_VALUE, IAC, 66, ENV_USERVAR, 68>>,
     <<ENV_VAR, 65, ENV_USERVAR, ENV_USERVAR, 66>>,
     <<ENV_USERVAR, 65, ENV_VALUE, 66, ENV_VALUE, 67>>,
     <<ENV_VAR, 200, ENV_VALUE, 66>>,
     <<ENV_VAR>> \o ENV_USER \o <<ENV_USERVAR, 65, 66, ENV_VAR>>,
     <<ENV_USERVAR, 65, ENV_VAR, ENV_USERVAR, 66, ENV_VAR>>,
     <<ENV_VAR, 65, ENV_ESC, ENV_VAR, ENV_USERVAR, 200>>}

InitEnv ==
    /\ NewCodec(LineCap)
    /\ wire \in EnvSeqs(MaxEnvLen) \cup EnvPayloads
    /\ expected = <<>>
    /\ out_buf = <<>>

\* encode_bytes(wire)
EncodeBytes ==
    /\ op = "host"
    /\ out_buf' = encode_bytes(wire)
    /\ expected' = <<wire>>
    /\ op' = "encode_bytes"
    /\ UNCHANGED <<sga, message_mode, max_buffer_length, codec_buffer, buffer,
                   result, old_buffer, old_codec_buffer, wire, events>>

\* The slice handed to a decoding function: what encode_bytes wrote, or the
\* bytes drawn.
EnvArgument == IF op = "encode_bytes" THEN out_buf ELSE wire

\* decode_env_name(EnvArgument)
DecodeEnvName ==
    /\ op \in {"host", "encode_bytes"}
    /\ old_buffer' = EnvArgument
    /\ result' = decode_env_name(EnvArgument)
    /\ op' = "decode_env_name"
    /\ UNCHANGED <<sga, message_mode, max_buffer_length, codec_buffer, buffer,
                   old_codec_buffer, wire, events, expected, out_buf>>

\* decode_env_value(EnvArgument)
DecodeEnvValue ==
    /\ op \in {"host", "encode_bytes"}
    /\ old_buffer' = EnvArgument
    /\ result' = decode_env_value(EnvArgument)
    /\ op' = "decode_env_value"
    /\ UNCHANGED <<sga, message_mode, max_buffer_length, codec_buffer, buffer,
                   old_codec_buffer, wire, events, expected, out_buf>>

\* decode_env_is(wire)
DecodeEnvIs ==
    /\ op = "host"
    /\ old_buffer' = wire
    /\ result' = decode_env_is(wire)
    /\ op' = "decode_env_is"
    /\ UNCHANGED <<sga, message_mode, max_buffer_length, codec_buffer, buffer,
                   old_codec_buffer, wire, events, expected, out_buf>>

\* decode_env_send(wire)
DecodeEnvSend ==
    /\ op = "host"
    /\ old_buffer' = wire
    /\ result' = decode_env_send(wire)
    /\ op' = "decode_env_send"
    /\ UNCHANGED <<sga, message_mode, max_buffer_length, codec_buffer, buffer,
                   old_codec_buffer, wire, events, expected, out_buf>>

\* decode_env of the payload that begins with the op byte tag and goes on
\* with wire
DecodeEnv(tag) ==
    /\ op = "host"
    /\ old_buffer' = <<tag>> \o wire
    /\ result' = decode_env(<<tag>> \o wire)
    /\ op' = "decode_env"
    /\ UNCHANGED <<sga, message_mode, max_buffer_length, codec_buffer, buffer,
                   old_codec_buffer, wire, events, expected, out_buf>>

\* The operations handed to encode_env_op: names with and without bytes
\* that need escaping, wildcards, values present, empty and absent.
EnvKinds ==
    {WellKnown(OptSome(WellKnownVariable_from(ENV_USER))),
     WellKnown(OptSome(WellKnownVariable_from(<<65, ENV_VALUE>>))),
     WellKnown(OptNone),
     UserDefined(OptSome(<<66>>)),
     UserDefined(OptNone)}

EnvValues == {OptNone, OptSome(<<>>), OptSome(<<67, ENV_ESC, IAC>>)}

EnvOps ==
    {Env_Is(<<>>), Env_Send(<<>>), Env_Info(<<>>)}
        \cup {Env_Send(<<k>>) : k \in EnvKinds}
        \cup {Env_Send(<<k, UserDefined(OptSome(<<66>>))>>) : k \in EnvKinds}
        \cup {Env_Is(<<<<k, v>>>>) : k \in EnvKinds, v \in EnvValues}
        \cup {Env_Info(<<<<k, v>>, <<UserDefined(OptSome(<<66>>)), OptSome(<<67>>)>>>>) :
                    k \in EnvKinds, v \in EnvValues}

\* encode_env_op(o) into an empty buffer
EncodeEnvOp(o) ==
    /\ op = "host"
    /\ wire = <<>>
    /\ out_buf' = encode_env_op(o)
    /\ expected' = <<o>>
    /\ op' = "encode_env_op"
    /\ UNCHANGED <<sga, message_mode, max_buffer_length, codec_buffer, buffer,
                   result, old_buffer, old_codec_buffer, wire, events>>

EnvNext ==
    \/ \E o \in EnvOps : EncodeEnvOp(o)
    \/ EncodeBytes
    \/ DecodeEnvName
    \/ DecodeEnvValue
    \/ DecodeEnvIs
    \/ DecodeEnvSend
    \/ \E tag \in {ENV_IS, ENV_SEND, ENV_INFO, 65} : DecodeEnv(tag)

SpecEnv == InitEnv /\ [][EnvNext]_vars

\* C23 as stated: for any byte sequence s, decode_env_name(encode_bytes(s))
\* returns (s, encode_bytes(s).len()).
C23_EscapeLawAnySequence ==
    (op = "decode_env_name" /\ expected # <<>>)
      => result = OptSome(<<expected[1], Len(old_buffer)>>)

\* C23 amended: for any non-empty byte sequence s,
\* decode_env_name(encode_bytes(s)) returns (s, encode_bytes(s).len()).
C23_EscapeLaw ==
    (op = "decode_env_name" /\ expected # <<>> /\ expected[1] # <<>>)
      => result = OptSome(<<expected[1], Len(old_buffer)>>)

\* A name holding a tag byte, an IAC and a letter came back from its
\* five-byte encoding.
C23_Witness ==
    /\ op = "decode_env_name"
    /\ expected = <<<<ENV_VAR, IAC, 65>>>>
    /\ old_buffer = <<ENV_ESC, ENV_VAR, IAC, IAC, 65>>
    /\ result = OptSome(<<<<ENV_VAR, IAC, 65>>, 5>>)

\* A malformed escape met while reading s from the left, before any
\* unescaped byte of stop: an ESC followed by a byte outside VAR, VALUE, ESC,
\* USERVAR, an IAC followed by a byte other than IAC, or an ESC or IAC that
\* ends s.
RECURSIVE BadEscape(_, _)
BadEscape(s, stop) ==
    IF s = <<>> THEN FALSE
    ELSE IF s[1] = ENV_ESC
    THEN (IF Len(s) < 2 THEN TRUE
          ELSE IF s[2] \notin {ENV_VAR, ENV_VALUE, ENV_ESC, ENV_USERVAR} THEN TRUE
          ELSE BadEscape(Tail(Tail(s)), stop))
    ELSE IF s[1] = IAC
    THEN (IF Len(s) < 2 THEN TRUE
          ELSE IF s[2] # IAC THEN TRUE
          ELSE BadEscape(Tail(Tail(s)), stop))
    ELSE IF s[1] \in stop THEN FALSE
    ELSE BadEscape(Tail(s), stop)

\* C24: decode_env_name and decode_env_value return None when the name or
\* value they read holds a malformed escape; decode_env_is returns None for
\* a payload that holds one anywhere, and decode_env of an IS or INFO
\* payload then produces no event.
C24_MalformedEscapeRejected ==
    /\ (op = "decode_env_name"
            /\ BadEscape(old_buffer, {ENV_VAR, ENV_VALUE, ENV_USERVAR}))
          => result = OptNone
    /\ (op = "decode_env_value" /\ BadEscape(old_buffer, {ENV_VAR, ENV_USERVAR}))
          => result = OptNone
    /\ (op = "decode_env_is" /\ BadEscape(old_buffer, {}))
          => result = OptNone
    /\ (op = "decode_env" /\ old_buffer[1] \in {ENV_IS, ENV_INFO}
            /\ BadEscape(Tail(old_buffer), {}))
          => result = None

\* An INFO payload whose second variable's value holds ESC followed by a
\* letter produced no event.
C24_Witness ==
    /\ op = "decode_env"
    /\ old_buffer = <<ENV_INFO, ENV_VAR, 65, ENV_VALUE, 66, ENV_ESC, 67, ENV_USERVAR, 68>>
    /\ result = None

\* The payload read as tokens: an unescaped VAR or USERVAR is a tag, an
\* unescaped VALUE a value mark, every other byte and every escaped byte a
\* data byte; a malformed escape ends the tokens with a bad token.
RECURSIVE EnvTokens(_)
EnvTokens(s) ==
    IF s = <<>> THEN <<>>
    ELSE IF s[1] = ENV_ESC
    THEN (IF Len(s) >= 2 /\ s[2] \in {ENV_VAR, ENV_VALUE, ENV_ESC, ENV_USERVAR}
          THEN <<[t |-> "byte", b |-> s[2]]>> \o EnvTokens(Tail(Tail(s)))
          ELSE <<[t |-> "bad", b |-> 0]>>)
    ELSE IF s[1] = IAC
    THEN (IF Len(s) >= 2 /\ s[2] = IAC
          THEN <<[t |-> "byte", b |-> IAC]>> \o EnvTokens(Tail(Tail(s)))
          ELSE <<[t |-> "bad", b |-> 0]>>)
    ELSE IF s[1] \in {ENV_VAR, ENV_USERVAR}
    THEN <<[t |-> "tag", b |-> s[1]]>> \o EnvTokens(Tail(s))
    ELSE IF s[1] = ENV_VALUE
    THEN <<[t |-> "value", b |-> 0]>> \o EnvTokens(Tail(s))
    ELSE <<[t |-> "byte", b |-> s[1]]>> \o EnvTokens(Tail(s))

\* The data bytes that toks begins with.
RECURSIVE LeadingBytes(_)
LeadingBytes(toks) ==
    IF toks = <<>> \/ toks[1].t # "byte" THEN <<>>
    ELSE <<toks[1].b>> \o LeadingBytes(Tail(toks))

DropTokens(toks, n) == SubSeq(toks, n + 1, Len(toks))

\* A name that is not UTF-8 cannot become a String; such payloads are left
\* out of the statement.
NotUtf8 == <<"not utf-8">>

IsEntry(tag, name, value) ==
    <<IF tag = ENV_VAR THEN WellKnown(OptSome(WellKnownVariable_from(name)))
      ELSE UserDefined(OptSome(name)), value>>

IsCons(name, e, r) ==
    IF ~IsUtf8(name) \/ r = NotUtf8 THEN NotUtf8
    ELSE IF r = OptNone THEN OptNone
    ELSE OptSome(<<e>> \o r[1])

\* What the claim expects of an IS or INFO payload given as tokens: one entry
\* per tag, the value present exactly when a value mark follows the name;
\* None when a name is empty or something other than a tag starts a variable.
RECURSIVE IsExpected(_)
RECURSIVE IsAfterName(_, _, _)
IsAfterName(tag, name, rest) ==
    IF name = <<>> THEN OptNone
    ELSE IF rest # <<>> /\ rest[1].t = "value"
    THEN IsCons(name, IsEntry(tag, name, OptSome(LeadingBytes(Tail(rest)))),
                IsExpected(DropTokens(rest, 1 + Len(LeadingBytes(Tail(rest))))))
    ELSE IsCons(name, IsEntry(tag, name, OptNone), IsExpected(rest))

IsExpected(toks) ==
    IF toks = <<>> THEN OptSome(<<>>)
    ELSE IF toks[1].t # "tag" THEN OptNone
    ELSE IsAfterName(toks[1].b, LeadingBytes(Tail(toks)),
                     DropTokens(toks, 1 + Len(LeadingBytes(Tail(toks)))))

\* C25: decode_env_is returns one entry per variable in wire order, a VAR
\* tag giving WellKnown(from name) and a USERVAR tag UserDefined(name), the
\* value present exactly when a VALUE tag follows the name; a variable with
\* an empty name, or a payload that does not start with VAR or USERVAR, is
\* rejected as a whole.
C25_EnvIsDecode ==
    (op = "decode_env_is" /\ IsExpected(EnvTokens(old_buffer)) # NotUtf8)
      => result = IsExpected(EnvTokens(old_buffer))

\* Three variables, the first well known with a value, the second without
\* one, the third with an empty value.
C25_Witness ==
    /\ op = "decode_env_is"
    /\ old_buffer = <<ENV_VAR>> \o ENV_USER
                        \o <<ENV_VALUE, 65, ENV_USERVAR, 66, ENV_USERVAR, 67, ENV_VALUE>>
    /\ result = OptSome(<<<<WellKnown(OptSome([variant |-> "User"])), OptSome(<<65>>)>>,
                          <<UserDefined(OptSome(<<66>>)), OptNone>>,
                          <<UserDefined(OptSome(<<67>>)), OptSome(<<>>)>>>>)

\* C26: decode_env_send of a payload made of one tag and a name gives
\* WellKnown for a VAR tag and UserDefined for a USERVAR tag, the kinds that
\* encode to those tags.
C26_SendTagMapping ==
    (op = "decode_env_send" /\ Len(old_buffer) >= 2
        /\ old_buffer[1] \in {ENV_VAR, ENV_USERVAR}
        /\ \A i \in 2..Len(old_buffer) : old_buffer[i] = 65)
      => /\ result # OptNone
         /\ Len(result[1]) = 1
         /\ result[1][1] = (IF old_buffer[1] = ENV_VAR
                            THEN WellKnown(OptSome(WellKnownVariable_from(Tail(old_buffer))))
                            ELSE UserDefined(OptSome(Tail(old_buffer))))
         /\ EnvironmentKind_as_u8(result[1][1]) = old_buffer[1]

\* The number of VAR and USERVAR bytes of s.
RECURSIVE TagCount(_)
TagCount(s) ==
    IF s = <<>> THEN 0
    ELSE (IF s[1] \in {ENV_VAR, ENV_USERVAR} THEN 1 ELSE 0) + TagCount(Tail(s))

\* C27: decode_env_send of a payload of tags and name letters that starts
\* with a tag returns exactly one entry per tag, a final tag that no name
\* bytes follow included.
C27_SendOneEntryPerTag ==
    (op = "decode_env_send" /\ old_buffer # <<>>
        /\ old_buffer[1] \in {ENV_VAR, ENV_USERVAR}
        /\ \A i \in 1..Len(old_buffer) : old_buffer[i] \in {ENV_VAR, ENV_USERVAR, 65})
      => /\ result # OptNone
         /\ Len(result[1]) = TagCount(old_buffer)

\* The name bytes of a kind, none for a wildcard.
KindNameBytes(k) ==
    IF k.name = OptNone THEN <<>>
    ELSE IF k.kind = "WellKnown" THEN WellKnownVariable_as_str(k.name[1])
    ELSE k.name[1]

KindTag(k) == IF k.kind = "WellKnown" THEN ENV_VAR ELSE ENV_USERVAR

\* What the claim expects for the variables of Is and Info ...
RECURSIVE VarsExpected(_)
VarsExpected(vs) ==
    IF vs = <<>> THEN <<>>
    ELSE <<KindTag(vs[1][1])>> \o encode_bytes(KindNameBytes(vs[1][1]))
            \o (IF vs[1][2] = OptNone THEN <<>>
                ELSE <<ENV_VALUE>> \o encode_bytes(vs[1][2][1]))
            \o VarsExpected(Tail(vs))

\* ... and for the kinds of Send.
RECURSIVE KindsExpected(_)
KindsExpected(ks) ==
    IF ks = <<>> THEN <<>>
    ELSE <<KindTag(ks[1])>> \o encode_bytes(KindNameBytes(ks[1]))
            \o KindsExpected(Tail(ks))

\* C28: encode_env_op writes the op tag and then, for each listed variable
\* in order, wildcards included, its kind tag and its escaped name bytes, and
\* for Is and Info a VALUE tag and the escaped value bytes exactly when a
\* value is present.
C28_EnvEncoder ==
    (op = "encode_env_op")
      => out_buf = (IF expected[1].op = "Is" THEN <<ENV_IS>> \o VarsExpected(expected[1].vars)
                    ELSE IF expected[1].op = "Info"
                    THEN <<ENV_INFO>> \o VarsExpected(expected[1].vars)
                    ELSE <<ENV_SEND>> \o KindsExpected(expected[1].vars))

(***************************************************************************)
(* The SLC modifier byte (linemode.rs): every byte unpacked and packed     *)
(* again, every Modifiers value packed and unpacked again.  wire holds the *)
(* byte drawn, expected the Modifiers value drawn, result the last value   *)
(* unpacked and out_buf the last byte packed.                              *)
(***************************************************************************)
AllModifiers ==
    [level : {"NoSupport", "CantChange", "Value", "Default"},
     ack : BOOLEAN, flush_in : BOOLEAN, flush_out : BOOLEAN]

InitModifiers ==
    /\ NewCodec(LineCap)
    /\ out_buf = <<>>
    /\ \/ wire \in {<<v>> : v \in 0..255} /\ expected = <<>>
       \/ wire = <<>> /\ expected \in {<<m>> : m \in AllModifiers}

\* Modifiers::from(v) of the byte drawn
ModifiersFrom ==
    /\ op = "host" /\ wire # <<>>
    /\ result' = Modifiers_from(wire[1])
    /\ op' = "from"
    /\ UNCHANGED <<sga, message_mode, max_buffer_length, codec_buffer, buffer,
                   old_buffer, old_codec_buffer, wire, events, expected, out_buf>>

\* u8::from(m) of the value just unpacked, or of the value drawn
ModifiersInto ==
    /\ \/ op = "from" /\ out_buf' = <<Modifiers_into_u8(result)>>
       \/ op = "host" /\ expected # <<>>
            /\ out_buf' = <<Modifiers_into_u8(expected[1])>>
    /\ op' = "into"
    /\ UNCHANGED <<sga, message_mode, max_buffer_length, codec_buffer, buffer,
                   result, old_buffer, old_codec_buffer, wire, events, expected>>

\* Modifiers::from of the byte packed from the value drawn
ModifiersBack ==
    /\ op = "into" /\ expected # <<>>
    /\ result' = Modifiers_from(out_buf[1])
    /\ op' = "back"
    /\ UNCHANGED <<sga, message_mode, max_buffer_length, codec_buffer, buffer,
                   old_buffer, old_codec_buffer, wire, events, expected, out_buf>>

ModifiersNext == ModifiersFrom \/ ModifiersInto \/ ModifiersBack

SpecModifiers == InitModifiers /\ [][ModifiersNext]_vars

\* Level number v mod 4 by name.
LevelName(n) ==
    IF n = 0 THEN "NoSupport" ELSE IF n = 1 THEN "CantChange"
    ELSE IF n = 2 THEN "Value" ELSE "Default"

\* C29: Modifiers::from(u8::from(m)) = m for every Modifiers value m; for
\* every byte v, Modifiers::from(v) has level v mod 4, ack bit 7, flush_in
\* bit 6 and flush_out bit 5 of v, and packs to v with bits 2..4 cleared.
C29_ModifierPacking ==
    /\ op = "back" => result = expected[1]
    /\ (op = "from" \/ (op = "into" /\ wire # <<>>))
          => /\ result.level = LevelName(wire[1] % 4)
             /\ result.ack = (wire[1] >= 128)
             /\ result.flush_in = (wire[1] % 128 >= 64)
             /\ result.flush_out = (wire[1] % 64 >= 32)
    /\ (op = "into" /\ wire # <<>>)
          => out_buf[1] = wire[1] - ((wire[1] \div 4) % 8) * 4

\* The byte with every bit set unpacks to Default with the three flags and
\* packs to 227.
C29_Witness ==
    /\ op = "into" /\ wire = <<255>>
    /\ result = [level |-> "Default", ack |-> TRUE, flush_in |-> TRUE, flush_out |-> TRUE]
    /\ out_buf = <<227>>

(***************************************************************************)
(* Ill-formed input followed by a negotiation: all the bytes arrive, then  *)
(* the host calls decode again and again.                                  *)
(***************************************************************************)
\* IAC followed by a command byte that decode_bytes has no arm for.
UnknownCommands == {<<IAC, 1>>, <<IAC, 200>>, <<IAC, GA>>, <<IAC, SE>>}

InitStall ==
    /\ \E n \in 0..MaxCap : NewCodec(n)
    /\ \E p \in MalformedFrames \cup UnknownCommands,
          b \in {ECHO, SGA, NAWS, LINEMODE, CHARSET, ENVIRON, 200} :
          /\ wire = p \o <<IAC, DO, b>>
          /\ expected = <<Negotiation(DO, TelnetOption_from(b))>>
    /\ out_buf = <<>>

\* Every byte reaches the transport buffer.
Arrive ==
    /\ op = "host"
    /\ buffer' = buffer \o wire
    /\ wire' = <<>>
    /\ op' = "recv"
    /\ UNCHANGED <<sga, message_mode, max_buffer_length, codec_buffer, result,
                   old_buffer, old_codec_buffer, events, expected, out_buf>>

\* The host calls decode; no bytes are added.
DecodeAgain == op \in {"recv", "decode"} /\ DecodeCall(FALSE)

StallNext == Arrive \/ DecodeAgain

SpecStall == InitStall /\ [][StallNext]_vars /\ WF_vars(StallNext)

\* C30: in line mode, with a complete malformed subnegotiation frame or an
\* IAC and an unrecognized command byte in the transport and a complete
\* IAC DO b after it, calling decode again and again eventually returns
\* Do(TelnetOption::from(b)).
C30_NoStall == <>(op = "decode" /\ result = expected[1])

(***************************************************************************)
(* Repeated decode calls over a transport that receives nothing.           *)
(***************************************************************************)
\* A decode call that follows a decode call: the host has added no bytes and
\* written no flag in between.
DecodeAfterDecode == op = "decode" /\ op' = "decode"

\* C31: in line mode, when a decode call returned None and the host calls
\* decode again without adding bytes to the transport, the second call
\* returns None too and leaves the accumulator and the transport as the
\* first call left them.
C31_RescanIdempotence ==
    [][(DecodeAfterDecode /\ InLineMode /\ result = None)
          => (result' = None /\ codec_buffer' = codec_buffer /\ buffer' = buffer)]_vars

(***************************************************************************)
(* A host receives the peer's bytes, decodes and writes flags as it likes, *)
(* and then drains: it calls decode again and again, adding nothing to the *)
(* transport.  expected holds the transport as the drain found it.         *)
(***************************************************************************)
Draining == expected # <<>>

\* The host stops reading from the peer.
StartDrain ==
    /\ ~Draining
    /\ result # Panic
    /\ expected' = <<buffer>>
    /\ Forget
    /\ UNCHANGED <<sga, message_mode, max_buffer_length, codec_buffer, buffer,
                   wire, events, out_buf>>

\* A decode call of the drain; the host keeps the events.
DrainDecode == Draining /\ DecodeCall(TRUE)

DrainNext ==
    \/ ~Draining /\ Arrive
    \/ ~Draining /\ Decode
    \/ ~Draining /\ SetSga
    \/ ~Draining /\ SetMessageMode
    \/ StartDrain
    \/ DrainDecode

SpecDrain == Init /\ [][DrainNext]_vars

\* C32: a decode call that returns an event has shortened the transport or
\* has emptied a non-empty accumulator with sga set, and a host that calls
\* decode again and again without adding bytes gets at most
\* len(transport) + 1 events.
C32_Progress ==
    /\ (op = "decode" /\ result \notin {None, Panic})
          => \/ Len(buffer) < Len(old_buffer)
             \/ sga /\ old_codec_buffer # <<>> /\ codec_buffer = <<>>
                    /\ buffer = old_buffer
    /\ Draining => Len(events) <= Len(expected[1]) + 1

\* A drain that returned one event per byte of a transport of three bytes or
\* more and then None.
C32_Witness ==
    /\ Draining /\ op = "decode" /\ result = None
    /\ Len(expected[1]) >= 3
    /\ Len(events) = Len(expected[1])

(***************************************************************************)
(* Single line-mode calls on a transport that starts with an IAC pair.     *)
(***************************************************************************)
\* The transport starts with IAC and then the byte second.
StartsWithIac(buf, second) == Len(buf) >= 2 /\ buf[1] = IAC /\ buf[2] \in second

\* s starts with a complete negotiation.
StartsWithNegotiation(s) ==
    Len(s) >= 3 /\ s[1] = IAC /\ s[2] \in {DO, DONT, WILL, WONT}

\* What a line-mode call does with the bytes rest once the scan has reached
\* them with the accumulator acc: data only, data and then an LF behind a CR,
\* or data and then a negotiation.
ScanFrom(acc, rest, max) ==
    /\ PlainData(rest)
          => /\ result = None
             /\ codec_buffer = Accumulate(acc, rest, max)
             /\ buffer = old_buffer
    /\ \A i \in FirstLF(rest) :
          EndsWith(Accumulate(acc, SubSeq(rest, 1, i - 1), max), CR)
              => /\ result = Message(from_utf8_lossy(
                                 Front(Accumulate(acc, SubSeq(rest, 1, i - 1), max))))
                 /\ codec_buffer = <<>>
                 /\ buffer = SliceFrom(rest, i)
    /\ \A k \in 0..(Len(rest) - 3) :
          (PlainData(SubSeq(rest, 1, k)) /\ StartsWithNegotiation(SliceFrom(rest, k)))
              => /\ result = Negotiation(rest[k + 2], TelnetOption_from(rest[k + 3]))
                 /\ codec_buffer = Accumulate(acc, SubSeq(rest, 1, k), max)
                 /\ buffer = SliceFrom(rest, k + 3)

\* C33: a line-mode call that finds IAC IAC at the head of the transport
\* appends one IAC to the accumulator if it is under the cap and none if it
\* is full, and goes on with the byte after the pair as it would have
\* without the pair: the pair gives no event of its own.
C33_IacIacLiteral ==
    (op = "decode" /\ InLineMode /\ StartsWithIac(old_buffer, {IAC}))
        => ScanFrom(IF Len(old_codec_buffer) < max_buffer_length
                    THEN Append(old_codec_buffer, IAC) ELSE old_codec_buffer,
                    SliceFrom(old_buffer, 2), max_buffer_length)

\* A call that appended the literal IAC and returned the negotiation behind
\* the pair.
C33_Witness ==
    /\ op = "decode" /\ InLineMode /\ StartsWithIac(old_buffer, {IAC})
    /\ Len(old_codec_buffer) < max_buffer_length
    /\ codec_buffer = Append(old_codec_buffer, IAC)
    /\ IsNegotiation(result)

\* The command bytes that decode_bytes has an arm for.
KnownCommands == {IAC, DO, DONT, WILL, WONT, SB, NOP}

\* C34: a line-mode call that finds IAC and then a byte x that is none of
\* IAC, DO, DONT, WILL, WONT, SB and NOP at the head of the transport skips
\* the IAC alone and handles x as the next input byte; one that finds IAC NOP
\* skips both bytes and leaves the accumulator as it was.  Neither pair gives
\* an event of its own.
C34_UnknownCommandSkipped ==
    /\ (op = "decode" /\ InLineMode
            /\ StartsWithIac(old_buffer, (0..255) \ KnownCommands))
          => ScanFrom(old_codec_buffer, SliceFrom(old_buffer, 1), max_buffer_length)
    /\ (op = "decode" /\ InLineMode /\ StartsWithIac(old_buffer, {NOP}))
          => ScanFrom(old_codec_buffer, SliceFrom(old_buffer, 2), max_buffer_length)

\* A call that skipped the IAC and took the byte behind it into the
\* accumulator as data.
C34_Witness ==
    /\ op = "decode" /\ InLineMode
    /\ StartsWithIac(old_buffer, (0..255) \ KnownCommands)
    /\ Len(old_codec_buffer) < max_buffer_length
    /\ result = None
    /\ codec_buffer = Append(old_codec_buffer, old_buffer[2])

(***************************************************************************)
(* Character mode.                                                         *)
(***************************************************************************)
InCharacterMode == ~sga /\ ~message_mode

\* C35: a character-mode call that finds a byte other than IAC at the head
\* of the transport returns Character(that byte) and removes that one byte
\* from the transport.
C35_CharacterMode ==
    (op = "decode" /\ InCharacterMode /\ old_buffer # <<>> /\ old_buffer[1] # IAC)
        => (result = Character(old_buffer[1]) /\ buffer = Tail(old_buffer))

(***************************************************************************)
(* decode_charset and decode_linemode applied to subnegotiation payloads.  *)
(* wire is the payload drawn, old_buffer the slice handed to the function  *)
(* and result what it returned.                                            *)
(***************************************************************************)
\* The payloads drawn hold at most MaxPayload bytes.
MaxPayload == 4

RECURSIVE SeqsOver(_, _)
SeqsOver(alphabet, n) ==
    IF n = 0 THEN {<<>>}
    ELSE SeqsOver(alphabet, n - 1)
            \cup {<<b>> \o s : b \in alphabet, s \in SeqsOver(alphabet, n - 1)}

\* The sub-commands of CHARSET, one byte that is none, a separator, a letter.
CharsetAlphabet ==
    {CHARSET_REQUEST, CHARSET_ACCEPTED, CHARSET_REJECTED, 4,
     CHARSET_TTABLE_REJECTED, 32, 65}

\* The sub-options of LINEMODE, the four verbs and a letter.
LinemodeAlphabet ==
    {MODE, LINEMODE_FORWARD_MASK, LINEMODE_SLC, DO, DONT, WILL, WONT, 65}

InitPayload ==
    /\ NewCodec(LineCap)
    /\ wire \in SeqsOver(CharsetAlphabet, MaxPayload)
                    \cup SeqsOver(LinemodeAlphabet, MaxPayload)
    /\ expected = <<>>
    /\ out_buf = <<>>

\* decode_charset(wire)
DecodeCharset ==
    /\ op = "host"
    /\ old_buffer' = wire
    /\ result' = decode_charset(wire)
    /\ op' = "decode_charset"
    /\ UNCHANGED <<sga, message_mode, max_buffer_length, codec_buffer, buffer,
                   old_codec_buffer, wire, events, expected, out_buf>>

\* decode_linemode(wire)
DecodeLinemode ==
    /\ op = "host"
    /\ old_buffer' = wire
    /\ result' = decode_linemode(wire)
    /\ op' = "decode_linemode"
    /\ UNCHANGED <<sga, message_mode, max_buffer_length, codec_buffer, buffer,
                   old_codec_buffer, wire, events, expected, out_buf>>

PayloadNext == DecodeCharset \/ DecodeLinemode

SpecPayload == InitPayload /\ [][PayloadNext]_vars

\* The names of a CHARSET REQUEST payload: the pieces that hold no separator
\* and that, joined by the separator, give the bytes behind it.  A payload
\* with nothing behind the separator carries no names.
IsNameList(names, separator, remainder) ==
    /\ names # <<>>
    /\ \A i \in 1..Len(names) : \A j \in 1..Len(names[i]) : names[i][j] # separator
    /\ JoinCharsets(names, separator) = remainder

\* What decode_charset returns for the payload p other than a REQUEST.
CharsetOther(p) ==
    IF p = <<>> THEN None
    ELSE IF p[1] = CHARSET_ACCEPTED THEN Subnegotiate(CharsetAccepted(Tail(p)))
    ELSE IF p[1] = CHARSET_REJECTED THEN Subnegotiate(CharsetRejected)
    ELSE IF p[1] = CHARSET_TTABLE_REJECTED THEN Subnegotiate(CharsetTTableRejected)
    ELSE None

\* C36: decode_charset splits the bytes behind the separator of a REQUEST
\* into its names and returns no event for a REQUEST that carries no names;
\* ACCEPTED gives CharsetAccepted of the bytes behind it, REJECTED and
\* TTABLE_REJECTED their events, every other payload no event.
C36_CharsetDecode ==
    op = "decode_charset" =>
        IF old_buffer # <<>> /\ old_buffer[1] = CHARSET_REQUEST
        THEN IF Len(old_buffer) <= 2 THEN result = None
             ELSE /\ result.type = "Subnegotiate"
                  /\ result.sub.kind = "CharsetRequest"
                  /\ IsNameList(result.sub.charsets, old_buffer[2],
                                SliceFrom(old_buffer, 2))
        ELSE result = CharsetOther(old_buffer)

\* e is a LINEMODE ForwardMask event.
IsForwardMask(e) ==
    /\ e.type = "Subnegotiate"
    /\ e.sub.kind = "LineMode"
    /\ e.sub.mode.variant = "ForwardMask"

\* C37: for a payload whose first byte is DO, DONT, WILL or WONT,
\* decode_linemode returns a ForwardMask event only when the second byte is
\* LINEMODE_FORWARD_MASK, and then Do(the bytes behind the second byte) for
\* DO and the variant of the verb for the other three.
C37_ForwardMaskDecode ==
    (op = "decode_linemode" /\ old_buffer # <<>>
        /\ old_buffer[1] \in {DO, DONT, WILL, WONT})
      => IF Len(old_buffer) >= 2 /\ old_buffer[2] = LINEMODE_FORWARD_MASK
         THEN result = Subnegotiate(LineMode(LineMode_ForwardMask(
                           IF old_buffer[1] = DO
                           THEN [variant |-> "Do", data |-> SliceFrom(old_buffer, 2)]
                           ELSE ForwardMaskOption_from(old_buffer[1]))))
         ELSE ~IsForwardMask(result)

(***************************************************************************)
(* Subnegotiations of options without a parser of their own, encoded and   *)
(* decoded back.                                                           *)
(***************************************************************************)
\* The payloads drawn hold at most MaxUnknown bytes.
MaxUnknown == 3

\* Option bytes that decode_subnegotiation_end hands to decode_unknown.
UnknownOptions == {0, ECHO, SGA, 99, 200, SE, IAC}

InitUnknown ==
    /\ NewCodec(LineCap)
    /\ expected \in {<<Subnegotiate(Unknown(TelnetOption_from(b), p))>> :
                        b \in UnknownOptions,
                        p \in SeqsOver({0, 65, SE, IAC}, MaxUnknown)}
    /\ out_buf = <<>>
    /\ wire = <<>>

SpecUnknown == InitUnknown /\ [][RoundTripNext]_vars

\* p with one more IAC in front of every IAC.
RECURSIVE DoubleIacs(_)
DoubleIacs(p) ==
    IF p = <<>> THEN <<>>
    ELSE IF Head(p) = IAC THEN <<IAC, IAC>> \o DoubleIacs(Tail(p))
    ELSE <<Head(p)>> \o DoubleIacs(Tail(p))

\* C38: encode(Subnegotiate(Unknown(opt, p))) writes IAC SB opt, p with
\* every IAC doubled and IAC SE, and decode of these bytes returns
\* Subnegotiate(Unknown(opt, p)), for every payload p and every option byte
\* other than NAWS, CHARSET, LINEMODE and NEW-ENVIRON.
C38_UnknownEscaping ==
    /\ op # "host"
          => out_buf = <<IAC, SB, TelnetOption_into_u8(expected[1].sub.option)>>
                          \o DoubleIacs(expected[1].sub.bytes) \o <<IAC, SE>>
    /\ op = "decode" => result = expected[1]

\* A payload of three bytes with an IAC among them came back as it was.
C38_Witness ==
    /\ op = "decode"
    /\ result = expected[1]
    /\ Len(result.sub.bytes) = 3
    /\ \E i \in 1..3 : result.sub.bytes[i] = IAC
    /\ Len(out_buf) > 8

(***************************************************************************)
(* One codec used in both directions: the host receives and decodes the    *)
(* peer's bytes, writes the flags, and encodes events of its own into an   *)
(* output buffer that keeps what earlier calls wrote.                      *)
(***************************************************************************)
SessionWires ==
    {<<97, CR, LF>>, <<IAC, IAC>>, <<IAC, DO, ECHO>>,
     <<IAC, SB, NAWS, 0, 80, 0, 24, IAC, SE>>}

SessionEvents ==
    {Message(<<97>>), Negotiation(DO, TelnetOption_from(ECHO)), GoAhead}

InitSession ==
    /\ \E n \in 0..MaxCap : NewCodec(n)
    /\ wire \in SessionWires
    /\ expected = <<>>
    /\ out_buf = <<>>

\* Encoder::encode of event e on the codec that decodes
SessionEncode(e) == result # Panic /\ EncodeEvent(e)

SessionNext ==
    \/ Recv(1)
    \/ Decode
    \/ SetSga
    \/ SetMessageMode
    \/ \E e \in SessionEvents : SessionEncode(e)

SpecSession == InitSession /\ [][SessionNext]_vars

IsPrefix(s, t) == Len(s) <= Len(t) /\ SubSeq(t, 1, Len(s)) = s

\* C39: an encode call leaves the bytes that were in the output buffer as a
\* prefix of it and changes none of the accumulator, sga, message_mode and
\* max_buffer_length; a decode call changes none of sga, message_mode and
\* max_buffer_length.
C39_FrameConditions ==
    [][/\ op' = "encode"
            => /\ IsPrefix(out_buf, out_buf')
               /\ UNCHANGED <<codec_buffer, sga, message_mode, max_buffer_length>>
       /\ op' = "decode"
            => UNCHANGED <<sga, message_mode, max_buffer_length>>]_vars

\* An encode call that wrote behind earlier output, on a codec with bytes in
\* its accumulator and sga set.
C39_Witness ==
    /\ op = "encode"
    /\ old_buffer # <<>>
    /\ IsPrefix(old_buffer, out_buf) /\ Len(out_buf) > Len(old_buffer)
    /\ codec_buffer # <<>>
    /\ sga

(***************************************************************************)
(* A negotiation of every option byte is decoded, and the event decoded is *)
(* encoded again.                                                          *)
(***************************************************************************)
InitOption ==
    /\ NewCodec(LineCap)
    /\ wire \in {<<IAC, v, b>> : v \in {DO, DONT, WILL, WONT}, b \in 0..255}
    /\ expected = <<>>
    /\ out_buf = <<>>

\* Encoder::encode of the event that decode returned
Reencode ==
    /\ op = "decode"
    /\ result \notin {None, Panic}
    /\ out_buf' = encode(result, out_buf)
    /\ op' = "encode"
    /\ UNCHANGED <<sga, message_mode, max_buffer_length, codec_buffer, buffer,
                   result, old_buffer, old_codec_buffer, wire, events, expected>>

OptionNext == Arrive \/ DecodeFed \/ Reencode

SpecOption == InitOption /\ [][OptionNext]_vars

\* The option bytes that TelnetOption has a variant for.
RegisteredOptions == {1, 3, 25, 42, 70, 86, 90, 91, 201, 249}

\* C40: for every option byte b, decode of IAC verb b returns the
\* negotiation of the verb whose option is a named variant exactly when b is
\* a registered option byte, and encode of that event writes IAC verb b.
C40_OptionMapping ==
    /\ op \in {"decode", "encode"}
          => /\ IsNegotiation(result)
             /\ VerbByte(result) = old_buffer[2]
             /\ result.option.variant # "Unknown"
                    <=> old_buffer[3] \in RegisteredOptions
             /\ result.option.variant = "Unknown"
                    => result.option.byte = old_buffer[3]
    /\ op = "encode" => out_buf = old_buffer

\* A negotiation of a named option decoded and written back as it came.
C40_Witness ==
    /\ op = "encode"
    /\ out_buf = old_buffer
    /\ old_buffer[3] = GMCP
    /\ result.option.variant = "GMCP"

====
